---- MODULE Spec2Model ----
(***************************************************************************)
(* Model of athanor_factions: the faction tree, the rank registry, the     *)
(* permission resolver and the membership / invitation workflow, as the    *)
(* manager classes (managers.py) and DefaultFaction (factions.py) code     *)
(* them over the Django models of models.py.                               *)
(*                                                                         *)
(* Every handler op_* is one action.  A handler ends in success ("OK"),    *)
(* in a typed failure (operation.status set, operation.ex raised:          *)
(* "BadRequest" = 400, "Forbidden" = 403, "NotFound" = 404) or in an       *)
(* untyped fault ("Fault": a Python exception that is not operation.ex,    *)
(* such as AttributeError or IntegrityError).                              *)
(***************************************************************************)
EXTENDS Integers, Sequences, FiniteSets, TLC

VARIABLES
    factions,      \* FactionDB rows: sequence indexed by id of [key, parent, deleted]
    options,       \* per faction id: the OptionHandler values of the faction
    ranks,         \* Rank rows: set of [id, faction, number, name, permissions]
    members,       \* Member rows: set of [id, character, rank, permissions, title]
    invitations,   \* Invitation rows: set of [character, faction, inviter]
    defaultRanks,  \* settings.FACTION_DEFAULT_RANKS of the running process
    last,          \* the last dispatched operation and how it ended
    pending        \* reparent requests that passed their checks and have not written

vars == <<factions, options, ranks, members, invitations, defaultRanks, last, pending>>

(***************************************************************************)
(* Bounds of the model.                                                    *)
(***************************************************************************)
MaxFactions == 2
MaxRanks == 7

(***************************************************************************)
(* Actors.  The two capability locks are host-level lock strings; which    *)
(* character passes them is fixed per character.                           *)
(***************************************************************************)
Characters == {"dev", "adm", "ann", "bob", "cat"}
OverrideHolders == {"dev"}
AdminHolders == {"adm"}

None == 0

(***************************************************************************)
(* Faction keys are character sequences so that case folding is computed.  *)
(***************************************************************************)
LowerChar(ch) ==
    CASE ch = "A" -> "a"
      [] ch = "B" -> "b"
      [] OTHER -> ch

Lower(s) == [i \in DOMAIN s |-> LowerChar(s[i])]

IExact(a, b) == Lower(a) = Lower(b)

NameInputs == {<< >>, <<"A">>, <<"a">>, <<"B">>}

(***************************************************************************)
(* Permission tokens.  Norm is str.strip().lower() on the tokens used.     *)
(***************************************************************************)
FACTION_PERMISSIONS_BUILTIN == {"roster", "invite", "discipline"}

Norm(tok) ==
    CASE tok = "Roster" -> "roster"
      [] tok = " invite " -> "invite"
      [] tok = " " -> ""
      [] OTHER -> tok

Tokens == {"roster", "invite", "discipline", "custom", "Roster", " invite ", "bogus", " "}

FACTION_DEFAULT_RANKS ==
    (1 :> [name |-> "Leader", permissions |-> {"roster", "invite", "discipline"}]) @@
    (2 :> [name |-> "Second", permissions |-> {"roster", "invite", "discipline"}]) @@
    (3 :> [name |-> "Officer", permissions |-> {"invite", "discipline"}]) @@
    (4 :> [name |-> "Member", permissions |-> {}]) @@
    (5 :> [name |-> "Recruit", permissions |-> {}])

OPTIONS_FACTION_DEFAULT ==
    [universal_permissions |-> {}, permissions |-> {}, sub_permissions |-> {},
     start_rank |-> 5]

(***************************************************************************)
(* Capability checks.                                                      *)
(***************************************************************************)
check_override_or_admin(c) == c \in OverrideHolders \cup AdminHolders

check_override(c) == c \in OverrideHolders

check_admin(c) == c \in AdminHolders \/ check_override(c)

(***************************************************************************)
(* Faction tree queries.                                                   *)
(***************************************************************************)
FactionIds == DOMAIN factions

children(f) == {c \in FactionIds : factions[c].parent = f}

\* The walks below recurse as the code does; the fuel only ends the
\* evaluation on a graph with a cycle, where Python would raise
\* RecursionError.  On an acyclic graph it is never used up.
RECURSIVE ancestors_from(_, _)
ancestors_from(f, fuel) ==
    IF factions[f].parent = None \/ fuel = 0
    THEN {}
    ELSE {factions[f].parent} \cup ancestors_from(factions[f].parent, fuel - 1)

ancestors(f) == ancestors_from(f, Len(factions))

RECURSIVE sub_faction_from(_, _, _)
sub_faction_from(f, target, fuel) ==
    \E child \in children(f) :
        \/ child = target
        \/ fuel > 0 /\ sub_faction_from(child, target, fuel - 1)

contains_sub_faction_children_only(f, target) == target \in children(f)

contains_sub_faction(f, target) == sub_faction_from(f, target, Len(factions))

(***************************************************************************)
(* Permission resolver (DefaultFaction).                                   *)
(***************************************************************************)
RankRow(id) == CHOOSE r \in ranks : r.id = id

MemberRows(f, c) == {m \in members : m.character = c /\ RankRow(m.rank).faction = f}

\* QuerySet.first() under Member.Meta.ordering: the row of least rank number.
FirstMember(f, c) ==
    CHOOSE m \in MemberRows(f, c) :
        \A o \in MemberRows(f, c) : RankRow(m.rank).number <= RankRow(o.rank).number

NoRank == [none |-> TRUE, number |-> None]
Ranked(n) == [none |-> FALSE, number |-> n]

get_effective_rank_memberfirst(f, c) ==
    IF MemberRows(f, c) # {} THEN Ranked(RankRow(FirstMember(f, c).rank).number)
    ELSE IF check_admin(c) THEN Ranked(0)
    ELSE NoRank

get_effective_rank(f, c) ==
    IF check_admin(c) THEN Ranked(0)
    ELSE IF MemberRows(f, c) # {} THEN Ranked(RankRow(FirstMember(f, c).rank).number)
    ELSE NoRank

is_leader_any_member(f, c) == ~get_effective_rank(f, c).none

is_leader(f, c) ==
    LET rank == get_effective_rank(f, c)
    IN  IF rank.none THEN FALSE ELSE rank.number <= 1

join_permissions(perm_sets) == {Norm(val) : val \in UNION perm_sets} \ {""}

all_permissions(f) ==
    join_permissions({options[f].permissions, FACTION_PERMISSIONS_BUILTIN})

\* The attributes DefaultFaction and the classes it inherits define; a call
\* of any other name raises AttributeError.
FactionMethods ==
    {"at_first_save", "contains_sub_faction", "ancestors", "full_path", "is_deleted",
     "serialize", "options", "is_member", "get_effective_rank", "is_leader",
     "join_permissions", "all_permissions", "get_effective_permissions",
     "has_permission", "validate_permissions"}

Returns(perms) == [fault |-> FALSE, permissions |-> perms]
Raises == [fault |-> TRUE, permissions |-> {}]

RECURSIVE is_member_from(_, _, _, _)
is_member_from(f, c, admin, fuel) ==
    \/ admin /\ check_admin(c)
    \/ MemberRows(f, c) # {}
    \/ \E child \in children(f) : fuel > 0 /\ is_member_from(child, c, FALSE, fuel - 1)

is_member(f, c) == is_member_from(f, c, TRUE, Len(factions))

get_effective_permissions_nointersect(f, c) ==
    IF check_admin(c) THEN Returns(all_permissions(f))
    ELSE IF MemberRows(f, c) # {}
    THEN LET member == FirstMember(f, c)
         IN  IF RankRow(member.rank).number <= 1
             THEN Returns(all_permissions(f))
             ELSE Returns(join_permissions({options[f].universal_permissions,
                                            RankRow(member.rank).permissions,
                                            member.permissions}))
    ELSE Raises

get_effective_permissions(f, c) ==
    IF check_admin(c) THEN Returns(all_permissions(f))
    ELSE IF MemberRows(f, c) # {}
    THEN LET member == FirstMember(f, c)
         IN  IF RankRow(member.rank).number <= 1
             THEN Returns(all_permissions(f))
             ELSE Returns(join_permissions({options[f].universal_permissions,
                                            RankRow(member.rank).permissions,
                                            member.permissions})
                          \cap all_permissions(f))
    ELSE IF "is_sub_member" \notin FactionMethods
    THEN Raises
    ELSE IF \E g \in FactionIds : f \in ancestors(g) /\ MemberRows(g, c) # {}
    THEN Returns(join_permissions({options[f].sub_permissions}) \cap all_permissions(f))
    ELSE Returns({})

has_permission_noleader(f, c, permission) ==
    LET rank == get_effective_rank(f, c)
    IN  IF rank.none THEN FALSE
        ELSE Norm(permission) \in get_effective_permissions(f, c).permissions

has_permission(f, c, permission) ==
    LET rank == get_effective_rank(f, c)
    IN  IF rank.none THEN FALSE
        ELSE IF rank.number <= 1 THEN TRUE
        ELSE Norm(permission) \in get_effective_permissions(f, c).permissions

(***************************************************************************)
(* find_faction: the input is a faction object, an integer id, or missing. *)
(***************************************************************************)
NoInput == [kind |-> "none"]
RefInput(f) == [kind |-> "ref", id |-> f]
IdInput(n) == [kind |-> "id", id |-> n]
RootInput == [kind |-> "root"]
AbsentInput == [kind |-> "absent"]

find_faction(input) ==
    CASE input.kind = "none" -> [status |-> "BadRequest", faction |-> None]
      [] input.kind = "ref" -> [status |-> "OK", faction |-> input.id]
      [] input.kind = "id" ->
            IF input.id \in FactionIds
            THEN [status |-> "OK", faction |-> input.id]
            ELSE [status |-> "NotFound", faction |-> None]
      [] OTHER -> [status |-> "BadRequest", faction |-> None]

_validate_name(name) ==
    IF name = << >>
    THEN [status |-> "BadRequest", name |-> name]
    ELSE [status |-> "OK", name |-> name]

(***************************************************************************)
(* DefaultFaction.at_first_save: installs the default ladder, popping the  *)
(* name out of each entry of the settings dict.  ranks.create raises       *)
(* IntegrityError on a (faction, name) or (faction, number) collision.     *)
(***************************************************************************)
NewRankId(rs) == CHOOSE n \in 1..(Cardinality(rs) + 1) : \A r \in rs : r.id # n

RankCollides(rs, f, number, name) ==
    \E r \in rs : r.faction = f /\ (r.number = number \/ r.name = name)

RECURSIVE first_save_from(_, _, _, _)
first_save_from(f, n, rs, dr) ==
    IF n \notin DOMAIN dr
    THEN [ok |-> TRUE, ranks |-> rs, settings |-> dr]
    ELSE LET name == IF "name" \in DOMAIN dr[n] THEN dr[n].name ELSE ""
             data == [permissions |-> dr[n].permissions]
             popped == [dr EXCEPT ![n] = data]
         IN  IF RankCollides(rs, f, n, name)
             THEN [ok |-> FALSE, ranks |-> rs, settings |-> popped]
             ELSE first_save_from(f, n + 1,
                     rs \cup {[id |-> NewRankId(rs), faction |-> f, number |-> n,
                               name |-> name, permissions |-> data.permissions]},
                     popped)

at_first_save(f, rs, dr) == first_save_from(f, 1, rs, dr)

(***************************************************************************)
(* Results.                                                                *)
(***************************************************************************)
Ended(op, actor, args, result) ==
    [op |-> op, actor |-> actor, args |-> args, result |-> result]

Fails(op, actor, args, result) ==
    /\ last' = Ended(op, actor, args, result)
    /\ UNCHANGED <<factions, options, ranks, members, invitations, defaultRanks, pending>>

(***************************************************************************)
(* FactionDBManager.op_create                                              *)
(***************************************************************************)
SiblingConflict(name, parent, except) ==
    \E g \in FactionIds \ except :
        factions[g].parent = parent /\ IExact(factions[g].key, name)

op_create(actor, name, parentIn) ==
    LET args == [name |-> name, parent |-> parentIn]
        vn == _validate_name(name)
        pf == IF parentIn.kind = "absent"
              THEN [status |-> "OK", faction |-> None]
              ELSE find_faction(parentIn)
        new == Len(factions) + 1
        row == [key |-> name, parent |-> pf.faction, deleted |-> FALSE]
        saved == at_first_save(new, ranks, defaultRanks)
    IN  IF ~check_override(actor) THEN Fails("create", actor, args, "Forbidden")
        ELSE IF vn.status # "OK" THEN Fails("create", actor, args, vn.status)
        ELSE IF pf.status # "OK" THEN Fails("create", actor, args, pf.status)
        ELSE IF SiblingConflict(name, pf.faction, {})
             THEN Fails("create", actor, args, "BadRequest")
        ELSE /\ Len(factions) < MaxFactions
             /\ defaultRanks' = saved.settings
             /\ UNCHANGED <<members, invitations, pending>>
             /\ IF saved.ok
                THEN /\ factions' = Append(factions, row)
                     /\ options' = Append(options, OPTIONS_FACTION_DEFAULT)
                     /\ ranks' = saved.ranks
                     /\ last' = Ended("create", actor, args, "OK")
                ELSE \* IntegrityError out of at_first_save: the rows written so
                     \* far stay (autocommit) or go (a host transaction).
                     /\ last' = Ended("create", actor, args, "Fault")
                     /\ \/ /\ factions' = Append(factions, row)
                           /\ options' = Append(options, OPTIONS_FACTION_DEFAULT)
                           /\ ranks' = saved.ranks
                        \/ UNCHANGED <<factions, options, ranks, pending>>

(***************************************************************************)
(* FactionDBManager.op_rename.  Its sibling query ends in                  *)
(* .exclude(id=faction): a lookup on the integer id column converts its    *)
(* value with int(), which raises TypeError on a model instance, so the    *)
(* call raises as soon as the query is built.                              *)
(***************************************************************************)
IdLookupAccepts(valueKind) == valueKind \in {"int", "digits"}

op_rename(actor, factionIn, name) ==
    LET args == [faction |-> factionIn, name |-> name]
        ff == find_faction(factionIn)
        vn == _validate_name(name)
    IN  IF ~check_override(actor) THEN Fails("rename", actor, args, "Forbidden")
        ELSE IF ff.status # "OK" THEN Fails("rename", actor, args, ff.status)
        ELSE IF vn.status # "OK" THEN Fails("rename", actor, args, vn.status)
        ELSE IF ~IdLookupAccepts("instance") THEN Fails("rename", actor, args, "Fault")
        ELSE IF SiblingConflict(name, factions[ff.faction].parent, {ff.faction})
             THEN Fails("rename", actor, args, "BadRequest")
        ELSE /\ factions' = [factions EXCEPT ![ff.faction].key = name]
             /\ last' = Ended("rename", actor, args, "OK")
             /\ UNCHANGED <<options, ranks, members, invitations, defaultRanks, pending>>

(***************************************************************************)
(* FactionDBManager.op_parent                                              *)
(***************************************************************************)
parent_rejected_selfonly(faction, parent) == parent = faction

parent_rejected(faction, parent) ==
    \/ parent = faction
    \/ parent # None /\ faction \in ancestors(parent)
    \/ contains_sub_faction(faction, parent)

op_parent_assigns_first(actor, factionIn, parentIn) ==
    LET args == [faction |-> factionIn, parent |-> parentIn]
        ff == find_faction(factionIn)
        pf == IF parentIn.kind = "root"
              THEN [status |-> "OK", faction |-> None]
              ELSE find_faction(parentIn)
    IN  IF ~check_override(actor) THEN Fails("parent", actor, args, "Forbidden")
        ELSE IF ff.status # "OK" THEN Fails("parent", actor, args, ff.status)
        ELSE IF pf.status # "OK" THEN Fails("parent", actor, args, pf.status)
        ELSE /\ factions' = [factions EXCEPT ![ff.faction].parent = pf.faction]
             /\ last' = Ended("parent", actor, args,
                              IF parent_rejected(ff.faction, pf.faction)
                              THEN "BadRequest" ELSE "OK")
             /\ UNCHANGED <<options, ranks, members, invitations, defaultRanks, pending>>

op_parent(actor, factionIn, parentIn) ==
    LET args == [faction |-> factionIn, parent |-> parentIn]
        ff == find_faction(factionIn)
        pf == IF parentIn.kind = "root"
              THEN [status |-> "OK", faction |-> None]
              ELSE find_faction(parentIn)
    IN  IF ~check_override(actor) THEN Fails("parent", actor, args, "Forbidden")
        ELSE IF ff.status # "OK" THEN Fails("parent", actor, args, ff.status)
        ELSE IF pf.status # "OK" THEN Fails("parent", actor, args, pf.status)
        ELSE IF parent_rejected(ff.faction, pf.faction)
             THEN Fails("parent", actor, args, "BadRequest")
        ELSE /\ factions' = [factions EXCEPT ![ff.faction].parent = pf.faction]
             /\ last' = Ended("parent", actor, args, "OK")
             /\ UNCHANGED <<options, ranks, members, invitations, defaultRanks, pending>>

(***************************************************************************)
(* CmdFDelete.func, the only code that dispatches a faction "delete".      *)
(* FactionDBManager defines no op_delete and nothing in the repository     *)
(* assigns db_deleted.  The command prints its usage when the name is      *)
(* empty and the path is not; otherwise it builds the operation's kwargs   *)
(* from self.self.lhs, which raises AttributeError before the operation    *)
(* exists.  The command's lock admits override holders only.               *)
(***************************************************************************)
CommandAttrs == {"lhs", "rhs", "msg", "operation", "op_message", "f", "key", "locks"}

CmdFDelete(actor, factionIn, name) ==
    LET args == [faction |-> factionIn, name |-> name]
    IN  /\ check_override(actor)
        /\ IF name = << >> /\ factionIn.kind # "none"
           THEN Fails("delete", actor, args, "Usage")
           ELSE IF "self" \notin CommandAttrs
           THEN Fails("delete", actor, args, "Fault")
           ELSE \* not reached: there is no op_delete to dispatch to
                Fails("delete", actor, args, "Fault")

(***************************************************************************)
(* A process restart runs init(settings) again.                            *)
(***************************************************************************)
Restart ==
    /\ defaultRanks # FACTION_DEFAULT_RANKS
    /\ defaultRanks' = FACTION_DEFAULT_RANKS
    /\ last' = Ended("restart", "dev", [none |-> TRUE], "OK")
    /\ UNCHANGED <<factions, options, ranks, members, invitations, pending>>

(***************************************************************************)
(* Inputs of the tree operations.                                          *)
(***************************************************************************)
\* The override holder tries every input; the admin-only actor, who is
\* turned away before any argument is read, tries one request of each kind.
FactionInputs == {IdInput(n) : n \in 1..MaxFactions}

CreateInputs ==
    ({"dev"} \X NameInputs \X ({AbsentInput} \cup FactionInputs))
    \cup {<<"adm", <<"B">>, AbsentInput>>}

RenameInputs ==
    ({"dev"} \X FactionInputs \X NameInputs)
    \cup {<<"adm", IdInput(1), <<"B">> >>}

ParentInputs ==
    ({"dev"} \X FactionInputs \X ({RootInput} \cup FactionInputs))
    \cup {<<"adm", IdInput(1), RootInput>>}

Create == \E in \in CreateInputs : op_create(in[1], in[2], in[3])

Rename == \E in \in RenameInputs : op_rename(in[1], in[2], in[3])

Reparent == \E in \in ParentInputs : op_parent(in[1], in[2], in[3])

DeleteInputs == {"dev"} \X FactionInputs \X {<< >>, <<"A">>, <<"B">>}

Delete == \E in \in DeleteInputs : CmdFDelete(in[1], in[2], in[3])

InitEmpty ==
    /\ factions = << >>
    /\ options = << >>
    /\ ranks = {}
    /\ members = {}
    /\ invitations = {}
    /\ defaultRanks = FACTION_DEFAULT_RANKS
    /\ last = Ended("init", "dev", [none |-> TRUE], "OK")
    /\ pending = {}

NextTree == Create \/ Rename \/ Reparent \/ Delete \/ Restart

SpecTree == InitEmpty /\ [][NextTree]_vars

(***************************************************************************)
(* A populated database: faction 1 ("A") at root with faction 2 ("B")      *)
(* under it, both with the default ladder, and Member rows.  No handler of *)
(* managers.py gets as far as creating a Member row, so the rows the       *)
(* resolver reads are drawn here, each satisfying the schema of models.py. *)
(***************************************************************************)
Ladder(f) ==
    {[id |-> 5 * (f - 1) + n, faction |-> f, number |-> n,
      name |-> FACTION_DEFAULT_RANKS[n].name,
      permissions |-> FACTION_DEFAULT_RANKS[n].permissions] : n \in 1..5}

LadderId(f, n) == 5 * (f - 1) + n

SeedFactions ==
    << [key |-> <<"A">>, parent |-> None, deleted |-> FALSE],
       [key |-> <<"B">>, parent |-> 1, deleted |-> FALSE] >>

MemberRow(id, c, rankId, perms) ==
    [id |-> id, character |-> c, rank |-> rankId, permissions |-> perms, title |-> ""]

SetRankPermissions(rs, rankId, perms) ==
    {IF r.id = rankId THEN [r EXCEPT !.permissions = perms] ELSE r : r \in rs}

InitResolver ==
    /\ factions = SeedFactions
    /\ \E universal \in {{}, {"roster"}, {"custom"}},
          extra \in {{}, {"custom"}},
          sub \in {{}, {"invite"}} :
            options = << [universal_permissions |-> universal, permissions |-> extra,
                          sub_permissions |-> sub, start_rank |-> 5],
                         OPTIONS_FACTION_DEFAULT >>
    /\ \E rank4 \in {{}, {"roster", "custom"}} :
            ranks = SetRankPermissions(Ladder(1) \cup Ladder(2), LadderId(1, 4), rank4)
    /\ \E annRank \in {1, 3},
          bobRow \in {{}, {MemberRow(2, "bob", LadderId(1, 4), {})},
                      {MemberRow(2, "bob", LadderId(1, 4), {"invite", "custom"})}},
          admRow \in {{}, {MemberRow(4, "adm", LadderId(1, 5), {})}} :
            members = {MemberRow(1, "ann", LadderId(1, annRank), {}),
                       MemberRow(3, "bob", LadderId(2, 2), {})} \cup bobRow \cup admRow
    /\ invitations = {}
    /\ defaultRanks = FACTION_DEFAULT_RANKS
    /\ last = Ended("init", "dev", [none |-> TRUE], "OK")
    /\ pending = {}

\* The resolver is read-only: a query records what it returned.
Resolve ==
    \E f \in FactionIds, c \in Characters, permission \in {"roster", "Roster", "bogus"} :
        /\ last' = Ended("resolve", c, [faction |-> f, permission |-> permission],
                         [rank |-> get_effective_rank(f, c),
                          permissions |-> get_effective_permissions(f, c),
                          has_permission |-> has_permission(f, c, permission),
                          is_leader |-> is_leader(f, c),
                          is_member |-> is_member(f, c)])
        /\ UNCHANGED <<factions, options, ranks, members, invitations, defaultRanks, pending>>

NextResolver == Resolve

SpecResolver == InitResolver /\ [][NextResolver]_vars

(***************************************************************************)
(* Attribute lookups.  models.py declares three reverse relations on a     *)
(* faction (children, ranks, invitations); looking up any other name on a  *)
(* faction, or a field on a plain int, raises AttributeError.              *)
(***************************************************************************)
FactionRelations == {"children", "ranks", "invitations"}

FactionFields == {"id", "key", "parent", "deleted", "db_parent", "db_deleted", "__class__"}

FactionHasAttr(name) == name \in FactionRelations \cup FactionFields \cup FactionMethods

IntAttrs == {"real", "imag", "numerator", "denominator"}

NoValue == [kind |-> "none"]

\* The value find_character is called with: the Operation, or a plain str.
OperationArg(characterIn) == [isOperation |-> TRUE, character |-> characterIn]
StrArg == [isOperation |-> FALSE, character |-> NoValue]

ObjInput(c) == [kind |-> "obj", id |-> c]
NameStrInput == [kind |-> "str"]
IntInput(n) == [kind |-> "int", value |-> n]

find_character(arg) ==
    IF ~arg.isOperation THEN [status |-> "Fault", character |-> ""]
    ELSE IF arg.character.kind = "none" THEN [status |-> "BadRequest", character |-> ""]
    ELSE IF arg.character.kind # "obj" THEN [status |-> "BadRequest", character |-> ""]
    ELSE [status |-> "OK", character |-> arg.character.id]

_validate_rank(rankIn) ==
    IF rankIn.kind = "none" \/ (rankIn.kind = "int" /\ rankIn.value = 0)
    THEN [status |-> "BadRequest", number |-> None]
    ELSE IF rankIn.kind \notin {"int", "digits"}
    THEN [status |-> "BadRequest", number |-> None]
    ELSE [status |-> "OK", number |-> rankIn.value]

find_rank(f, rankIn) ==
    LET v == _validate_rank(rankIn)
        found == {r \in ranks : r.faction = f /\ r.number = v.number}
    IN  IF v.status # "OK" THEN [status |-> v.status, rank |-> None]
        ELSE IF found = {} THEN [status |-> "BadRequest", rank |-> None]
        ELSE [status |-> "OK", rank |-> (CHOOSE r \in found : TRUE).id]

FactionInvitations(f, c) == {i \in invitations : i.faction = f /\ i.character = c}

NewMemberId == CHOOSE n \in 1..(Cardinality(members) + 1) : \A m \in members : m.id # n

(***************************************************************************)
(* MemberManager.op_add                                                    *)
(***************************************************************************)
op_add_nocheck(character, factionIn, characterIn, rankIn) ==
    LET args == [faction |-> factionIn, character |-> characterIn, rank |-> rankIn]
        ff == find_faction(factionIn)
        f == ff.faction
        fc == find_character(OperationArg(characterIn))
        fr == find_rank(f, IF rankIn.kind = "absent"
                           THEN IntInput(options[f].start_rank) ELSE rankIn)
    IN  IF ff.status # "OK" THEN Fails("add", character, args, ff.status)
        ELSE IF ~check_admin(character) THEN Fails("add", character, args, "Forbidden")
        ELSE IF fc.status # "OK" THEN Fails("add", character, args, fc.status)
        ELSE IF fr.status # "OK" THEN Fails("add", character, args, fr.status)
        ELSE /\ members' = members \cup {MemberRow(NewMemberId, fc.character, fr.rank, {})}
             /\ last' = Ended("add", character, args, "OK")
             /\ UNCHANGED <<factions, options, ranks, invitations, defaultRanks, pending>>

op_add(character, factionIn, characterIn, rankIn) ==
    LET args == [faction |-> factionIn, character |-> characterIn, rank |-> rankIn]
        ff == find_faction(factionIn)
        f == ff.faction
        fc == find_character(OperationArg(characterIn))
        fr == find_rank(f, IF rankIn.kind = "absent"
                           THEN IntInput(options[f].start_rank) ELSE rankIn)
    IN  IF ff.status # "OK" THEN Fails("add", character, args, ff.status)
        ELSE IF ~FactionHasAttr("_MemberManager__class_")
             THEN Fails("add", character, args, "Fault")
        ELSE IF ~check_admin(character) THEN Fails("add", character, args, "Forbidden")
        ELSE IF fc.status # "OK" THEN Fails("add", character, args, fc.status)
        ELSE IF fr.status # "OK" THEN Fails("add", character, args, fr.status)
        ELSE IF ~FactionHasAttr("members") THEN Fails("add", character, args, "Fault")
        ELSE IF MemberRows(f, fc.character) # {}
             THEN Fails("add", character, args, "BadRequest")
        ELSE /\ members' = members \cup {MemberRow(NewMemberId, fc.character, fr.rank, {})}
             /\ last' = Ended("add", character, args, "OK")
             /\ UNCHANGED <<factions, options, ranks, invitations, defaultRanks, pending>>

(***************************************************************************)
(* MemberManager.op_remove                                                 *)
(***************************************************************************)
op_remove(character, factionIn, characterIn) ==
    LET args == [faction |-> factionIn, character |-> characterIn]
        ff == find_faction(factionIn)
        f == ff.faction
        fc == find_character(StrArg)
        rank == get_effective_rank(f, character)
    IN  IF ff.status # "OK" THEN Fails("remove", character, args, ff.status)
        ELSE IF ~has_permission(f, character, "roster")
             THEN Fails("remove", character, args, "Forbidden")
        ELSE IF fc.status # "OK" THEN Fails("remove", character, args, fc.status)
        ELSE IF ~FactionHasAttr("members") THEN Fails("remove", character, args, "Fault")
        ELSE IF MemberRows(f, fc.character) = {}
             THEN Fails("remove", character, args, "BadRequest")
        ELSE IF "number" \notin IntAttrs THEN Fails("remove", character, args, "Fault")
        ELSE IF rank.number > RankRow(FirstMember(f, fc.character).rank).number
             THEN Fails("remove", character, args, "BadRequest")
        ELSE /\ members' = members \ {FirstMember(f, fc.character)}
             /\ last' = Ended("remove", character, args, "OK")
             /\ UNCHANGED <<factions, options, ranks, invitations, defaultRanks, pending>>

(***************************************************************************)
(* MemberManager.op_rank                                                   *)
(***************************************************************************)
op_rank(character, factionIn, characterIn, rankIn) ==
    LET args == [faction |-> factionIn, character |-> characterIn, rank |-> rankIn]
        ff == find_faction(factionIn)
        f == ff.faction
        fc == find_character(StrArg)
        fr == find_rank(f, rankIn)
        actor_rank == get_effective_rank(f, character)
        member == FirstMember(f, fc.character)
    IN  IF ff.status # "OK" THEN Fails("rank", character, args, ff.status)
        ELSE IF ~has_permission(f, character, "roster")
             THEN Fails("rank", character, args, "Forbidden")
        ELSE IF fc.status # "OK" THEN Fails("rank", character, args, fc.status)
        ELSE IF ~FactionHasAttr("members") THEN Fails("rank", character, args, "Fault")
        ELSE IF MemberRows(f, fc.character) = {}
             THEN Fails("rank", character, args, "BadRequest")
        ELSE IF fr.status # "OK" THEN Fails("rank", character, args, fr.status)
        ELSE IF "number" \notin IntAttrs THEN Fails("rank", character, args, "Fault")
        ELSE IF actor_rank.number > RankRow(member.rank).number
             THEN Fails("rank", character, args, "BadRequest")
        ELSE IF RankRow(fr.rank).number >= RankRow(member.rank).number
             THEN Fails("rank", character, args, "BadRequest")
        ELSE /\ members' = (members \ {member}) \cup {[member EXCEPT !.rank = fr.rank]}
             /\ last' = Ended("rank", character, args, "OK")
             /\ UNCHANGED <<factions, options, ranks, invitations, defaultRanks, pending>>

(***************************************************************************)
(* MemberManager.op_title                                                  *)
(***************************************************************************)
op_title(character, factionIn, characterIn, titleIn) ==
    LET args == [faction |-> factionIn, character |-> characterIn, title |-> titleIn]
        ff == find_faction(factionIn)
        f == ff.faction
        fc == find_character(StrArg)
        my_rank == get_effective_rank(f, character)
        member == FirstMember(f, fc.character)
    IN  IF ff.status # "OK" THEN Fails("title", character, args, ff.status)
        ELSE IF ~has_permission(f, character, "roster")
             THEN Fails("title", character, args, "Forbidden")
        ELSE IF fc.status # "OK" THEN Fails("title", character, args, fc.status)
        ELSE IF ~FactionHasAttr("members") THEN Fails("title", character, args, "Fault")
        ELSE IF MemberRows(f, fc.character) = {}
             THEN Fails("title", character, args, "BadRequest")
        ELSE IF "number" \notin IntAttrs THEN Fails("title", character, args, "Fault")
        ELSE IF my_rank.number >= RankRow(member.rank).number
                /\ character # member.character
             THEN Fails("title", character, args, "BadRequest")
        ELSE IF titleIn = "" THEN Fails("title", character, args, "BadRequest")
        ELSE /\ members' = (members \ {member}) \cup {[member EXCEPT !.title = titleIn]}
             /\ last' = Ended("title", character, args, "OK")
             /\ UNCHANGED <<factions, options, ranks, invitations, defaultRanks, pending>>

(***************************************************************************)
(* InvitationManager.op_extend                                             *)
(***************************************************************************)
op_extend(character, factionIn, characterIn) ==
    LET args == [faction |-> factionIn, character |-> characterIn]
        ff == find_faction(factionIn)
        f == ff.faction
        fc == find_character(OperationArg(characterIn))
    IN  IF ff.status # "OK" THEN Fails("extend", character, args, ff.status)
        ELSE IF ~has_permission(f, character, "invite")
             THEN Fails("extend", character, args, "Forbidden")
        ELSE IF fc.status # "OK" THEN Fails("extend", character, args, fc.status)
        ELSE IF ~FactionHasAttr("members") THEN Fails("extend", character, args, "Fault")
        ELSE IF MemberRows(f, fc.character) # {}
             THEN Fails("extend", character, args, "BadRequest")
        ELSE IF FactionInvitations(f, fc.character) # {}
             THEN Fails("extend", character, args, "BadRequest")
        ELSE \* invitations.create(character=character) names no inviter, a
             \* NOT NULL column: IntegrityError.
             Fails("extend", character, args, "Fault")

(***************************************************************************)
(* InvitationManager.op_rescind                                            *)
(***************************************************************************)
op_rescind_unchecked(character, factionIn, characterIn) ==
    LET args == [faction |-> factionIn, character |-> characterIn]
        ff == find_faction(factionIn)
        f == ff.faction
        fc == find_character(OperationArg(characterIn))
    IN  IF ff.status # "OK" THEN Fails("rescind", character, args, ff.status)
        ELSE IF fc.status # "OK" THEN Fails("rescind", character, args, fc.status)
        ELSE IF FactionInvitations(f, fc.character) = {}
             THEN Fails("rescind", character, args, "BadRequest")
        ELSE /\ invitations' = invitations \ FactionInvitations(f, fc.character)
             /\ last' = Ended("rescind", character, args, "OK")
             /\ UNCHANGED <<factions, options, ranks, members, defaultRanks, pending>>

op_rescind(character, factionIn, characterIn) ==
    LET args == [faction |-> factionIn, character |-> characterIn]
        ff == find_faction(factionIn)
        f == ff.faction
        fc == find_character(OperationArg(characterIn))
    IN  IF ff.status # "OK" THEN Fails("rescind", character, args, ff.status)
        ELSE IF ~has_permission(f, character, "invite")
             THEN Fails("rescind", character, args, "Forbidden")
        ELSE IF fc.status # "OK" THEN Fails("rescind", character, args, fc.status)
        ELSE IF FactionInvitations(f, fc.character) = {}
             THEN Fails("rescind", character, args, "BadRequest")
        ELSE /\ invitations' = invitations \ FactionInvitations(f, fc.character)
             /\ last' = Ended("rescind", character, args, "OK")
             /\ UNCHANGED <<factions, options, ranks, members, defaultRanks, pending>>

(***************************************************************************)
(* InvitationManager.op_accept                                             *)
(***************************************************************************)
op_accept_keeps_invitation(character, factionIn) ==
    LET args == [faction |-> factionIn]
        ff == find_faction(factionIn)
        f == ff.faction
        fr == find_rank(f, IntInput(options[f].start_rank))
    IN  IF ff.status # "OK" THEN Fails("accept", character, args, ff.status)
        ELSE IF FactionInvitations(f, character) = {}
             THEN Fails("accept", character, args, "BadRequest")
        ELSE IF fr.status # "OK" THEN Fails("accept", character, args, "BadRequest")
        ELSE /\ members' = members \cup {MemberRow(NewMemberId, character, fr.rank, {})}
             /\ last' = Ended("accept", character, args, "OK")
             /\ UNCHANGED <<factions, options, ranks, invitations, defaultRanks, pending>>

op_accept(character, factionIn) ==
    LET args == [faction |-> factionIn]
        ff == find_faction(factionIn)
        f == ff.faction
        fr == find_rank(f, IntInput(options[f].start_rank))
    IN  IF ff.status # "OK" THEN Fails("accept", character, args, ff.status)
        ELSE IF FactionInvitations(f, character) = {}
             THEN Fails("accept", character, args, "BadRequest")
        ELSE IF ~FactionHasAttr("members") THEN Fails("accept", character, args, "Fault")
        ELSE IF MemberRows(f, character) # {}
             THEN Fails("accept", character, args, "BadRequest")
        ELSE IF fr.status # "OK" THEN Fails("accept", character, args, "BadRequest")
        ELSE /\ members' = members \cup {MemberRow(NewMemberId, character, fr.rank, {})}
             /\ invitations' = invitations \ FactionInvitations(f, character)
             /\ last' = Ended("accept", character, args, "OK")
             /\ UNCHANGED <<factions, options, ranks, defaultRanks, pending>>

(***************************************************************************)
(* InvitationManager.op_reject                                             *)
(***************************************************************************)
op_reject_any_invitation(character, factionIn) ==
    LET args == [faction |-> factionIn]
        ff == find_faction(factionIn)
        f == ff.faction
        invited == {i \in invitations : i.faction = f}
    IN  IF ff.status # "OK" THEN Fails("reject", character, args, ff.status)
        ELSE IF invited = {} THEN Fails("reject", character, args, "BadRequest")
        ELSE /\ invitations' = invitations \ {CHOOSE i \in invited : TRUE}
             /\ last' = Ended("reject", character, args, "OK")
             /\ UNCHANGED <<factions, options, ranks, members, defaultRanks, pending>>

op_reject(character, factionIn) ==
    LET args == [faction |-> factionIn]
        ff == find_faction(factionIn)
        f == ff.faction
    IN  IF ff.status # "OK" THEN Fails("reject", character, args, ff.status)
        ELSE IF FactionInvitations(f, character) = {}
             THEN Fails("reject", character, args, "BadRequest")
        ELSE /\ invitations' = invitations \ FactionInvitations(f, character)
             /\ last' = Ended("reject", character, args, "OK")
             /\ UNCHANGED <<factions, options, ranks, members, defaultRanks, pending>>

(***************************************************************************)
(* The membership workflow over a populated database.  Faction 2 has its   *)
(* start_rank option set to 6, a number none of its ranks has.             *)
(***************************************************************************)
Invite(c, f, inviter) == [character |-> c, faction |-> f, inviter |-> inviter]

InitMember ==
    /\ factions = SeedFactions
    /\ \E universal \in {{}, {"roster"}} :
            options = << [OPTIONS_FACTION_DEFAULT EXCEPT !.universal_permissions = universal],
                         [OPTIONS_FACTION_DEFAULT EXCEPT !.start_rank = 6] >>
    /\ ranks = Ladder(1) \cup Ladder(2)
    /\ \E annRank \in {1, 2, 3}, bobRank \in {2, 3, 4} :
            members = {MemberRow(1, "ann", LadderId(1, annRank), {}),
                       MemberRow(2, "bob", LadderId(1, bobRank), {})}
    /\ invitations = {Invite("cat", 1, "ann"), Invite("cat", 2, "adm")}
    /\ defaultRanks = FACTION_DEFAULT_RANKS
    /\ last = Ended("init", "dev", [none |-> TRUE], "OK")
    /\ pending = {}

MemberActors == {"adm", "ann", "bob"}
MemberFactions == {RefInput(1), RefInput(2)}
MemberTargets == {ObjInput("ann"), ObjInput("bob"), ObjInput("cat")}

Add ==
    \E character \in MemberActors, factionIn \in MemberFactions,
       characterIn \in MemberTargets, rankIn \in {AbsentInput, IntInput(3)} :
        op_add(character, factionIn, characterIn, rankIn)

Remove ==
    \E character \in MemberActors, factionIn \in MemberFactions,
       characterIn \in MemberTargets :
        op_remove(character, factionIn, characterIn)

RankOp ==
    \E character \in MemberActors, factionIn \in MemberFactions,
       characterIn \in MemberTargets, rankIn \in {IntInput(2), IntInput(3), IntInput(4)} :
        op_rank(character, factionIn, characterIn, rankIn)

Title ==
    \E character \in MemberActors, factionIn \in MemberFactions,
       characterIn \in MemberTargets :
        op_title(character, factionIn, characterIn, "T")

Extend ==
    \E character \in MemberActors, factionIn \in MemberFactions,
       characterIn \in MemberTargets \cup {NameStrInput} :
        op_extend(character, factionIn, characterIn)

Rescind ==
    \E character \in MemberActors, factionIn \in MemberFactions,
       characterIn \in MemberTargets \cup {NameStrInput} :
        op_rescind(character, factionIn, characterIn)

Accept ==
    \E character \in {"cat", "ann"}, factionIn \in MemberFactions :
        op_accept(character, factionIn)

Reject ==
    \E character \in {"cat", "ann"}, factionIn \in MemberFactions :
        op_reject(character, factionIn)

NextMember ==
    Add \/ Remove \/ RankOp \/ Title \/ Extend \/ Rescind \/ Accept \/ Reject

SpecMember == InitMember /\ [][NextMember]_vars

(***************************************************************************)
(* RankManager.  Its _validate_rank and find_rank are the same code as     *)
(* MemberManager's.  Rank names are compared with name__iexact.            *)
(***************************************************************************)
NameLower(name) ==
    CASE name = "Leader" -> "leader"
      [] name = "Second" -> "second"
      [] name = "Officer" -> "officer"
      [] name = "Member" -> "member"
      [] name = "Recruit" -> "recruit"
      [] name = "Scout" -> "scout"
      [] OTHER -> name

FactionRanks(f) == {r \in ranks : r.faction = f}

Rank_validate_name(name) ==
    IF name = "" THEN [status |-> "BadRequest", name |-> name]
    ELSE [status |-> "OK", name |-> name]

DigitsInput(n) == [kind |-> "digits", value |-> n]

rank_op_create_exactname(character, factionIn, rankIn, name) ==
    LET args == [faction |-> factionIn, rank |-> rankIn, name |-> name]
        ff == find_faction(factionIn)
        f == ff.faction
        vr == _validate_rank(rankIn)
        vn == Rank_validate_name(name)
    IN  IF ff.status # "OK" THEN Fails("rank_create", character, args, ff.status)
        ELSE IF ~is_leader(f, character) THEN Fails("rank_create", character, args, "Forbidden")
        ELSE IF vr.status # "OK" THEN Fails("rank_create", character, args, vr.status)
        ELSE IF \E r \in FactionRanks(f) : r.number = vr.number
             THEN Fails("rank_create", character, args, "BadRequest")
        ELSE IF vn.status # "OK" THEN Fails("rank_create", character, args, vn.status)
        ELSE IF \E r \in FactionRanks(f) : r.name = name
             THEN Fails("rank_create", character, args, "BadRequest")
        ELSE /\ ranks' = ranks \cup {[id |-> NewRankId(ranks), faction |-> f,
                                      number |-> vr.number, name |-> name,
                                      permissions |-> {}]}
             /\ last' = Ended("rank_create", character, args, "OK")
             /\ UNCHANGED <<factions, options, members, invitations, defaultRanks, pending>>

rank_op_create(character, factionIn, rankIn, name) ==
    LET args == [faction |-> factionIn, rank |-> rankIn, name |-> name]
        ff == find_faction(factionIn)
        f == ff.faction
        vr == _validate_rank(rankIn)
        vn == Rank_validate_name(name)
    IN  IF ff.status # "OK" THEN Fails("rank_create", character, args, ff.status)
        ELSE IF ~is_leader(f, character) THEN Fails("rank_create", character, args, "Forbidden")
        ELSE IF vr.status # "OK" THEN Fails("rank_create", character, args, vr.status)
        ELSE IF \E r \in FactionRanks(f) : r.number = vr.number
             THEN Fails("rank_create", character, args, "BadRequest")
        ELSE IF vn.status # "OK" THEN Fails("rank_create", character, args, vn.status)
        ELSE IF \E r \in FactionRanks(f) : NameLower(r.name) = NameLower(name)
             THEN Fails("rank_create", character, args, "BadRequest")
        ELSE IF RankCollides(ranks, f, vr.number, name)
             THEN Fails("rank_create", character, args, "Fault")
        ELSE /\ Cardinality(FactionRanks(f)) < MaxRanks
             /\ ranks' = ranks \cup {[id |-> NewRankId(ranks), faction |-> f,
                                      number |-> vr.number, name |-> name,
                                      permissions |-> {}]}
             /\ last' = Ended("rank_create", character, args, "OK")
             /\ UNCHANGED <<factions, options, members, invitations, defaultRanks, pending>>

rank_op_list(character, factionIn) ==
    LET args == [faction |-> factionIn]
        ff == find_faction(factionIn)
    IN  IF ff.status # "OK" THEN Fails("rank_list", character, args, ff.status)
        ELSE Fails("rank_list", character, args, "OK")

\* The name query ends in .exclude(id=rank), a model instance given to an
\* id lookup: TypeError, as in the faction rename.
rank_op_rename(character, factionIn, rankIn, name) ==
    LET args == [faction |-> factionIn, rank |-> rankIn, name |-> name]
        ff == find_faction(factionIn)
        f == ff.faction
        fr == find_rank(f, rankIn)
        vn == Rank_validate_name(name)
    IN  IF ff.status # "OK" THEN Fails("rank_rename", character, args, ff.status)
        ELSE IF ~is_leader(f, character) THEN Fails("rank_rename", character, args, "Forbidden")
        ELSE IF fr.status # "OK" THEN Fails("rank_rename", character, args, fr.status)
        ELSE IF vn.status # "OK" THEN Fails("rank_rename", character, args, vn.status)
        ELSE IF ~IdLookupAccepts("instance") THEN Fails("rank_rename", character, args, "Fault")
        ELSE IF \E r \in FactionRanks(f) : r.id # fr.rank /\ NameLower(r.name) = NameLower(name)
             THEN Fails("rank_rename", character, args, "BadRequest")
        ELSE /\ ranks' = {IF r.id = fr.rank THEN [r EXCEPT !.name = name] ELSE r : r \in ranks}
             /\ last' = Ended("rank_rename", character, args, "OK")
             /\ UNCHANGED <<factions, options, members, invitations, defaultRanks, pending>>

op_number(character, factionIn, rankIn, newIn) ==
    LET args == [faction |-> factionIn, rank |-> rankIn, new_number |-> newIn]
        ff == find_faction(factionIn)
        f == ff.faction
        fr == find_rank(f, rankIn)
        vr == _validate_rank(newIn)
    IN  IF ff.status # "OK" THEN Fails("rank_number", character, args, ff.status)
        ELSE IF ~is_leader(f, character) THEN Fails("rank_number", character, args, "Forbidden")
        ELSE IF fr.status # "OK" THEN Fails("rank_number", character, args, fr.status)
        ELSE IF vr.status # "OK" THEN Fails("rank_number", character, args, vr.status)
        ELSE IF \E r \in FactionRanks(f) : r.number = vr.number
             THEN Fails("rank_number", character, args, "BadRequest")
        ELSE /\ ranks' = {IF r.id = fr.rank THEN [r EXCEPT !.number = vr.number] ELSE r :
                              r \in ranks}
             /\ last' = Ended("rank_number", character, args, "OK")
             /\ UNCHANGED <<factions, options, members, invitations, defaultRanks, pending>>

op_delete_leaves_holders(character, factionIn, rankIn) ==
    LET args == [faction |-> factionIn, rank |-> rankIn]
        ff == find_faction(factionIn)
        f == ff.faction
        fr == find_rank(f, rankIn)
    IN  IF ff.status # "OK" THEN Fails("rank_delete", character, args, ff.status)
        ELSE IF ~is_leader(f, character)
             THEN Fails("rank_delete", character, args, "Forbidden")
        ELSE IF fr.status # "OK" THEN Fails("rank_delete", character, args, fr.status)
        ELSE /\ ranks' = {r \in ranks : r.id # fr.rank}
             /\ last' = Ended("rank_delete", character, args, "OK")
             /\ UNCHANGED <<factions, options, members, invitations, defaultRanks, pending>>

op_delete_ignores_holders(character, factionIn, rankIn) ==
    LET args == [faction |-> factionIn, rank |-> rankIn]
        ff == find_faction(factionIn)
        f == ff.faction
        fr == find_rank(f, rankIn)
    IN  IF ff.status # "OK" THEN Fails("rank_delete", character, args, ff.status)
        ELSE IF ~is_leader(f, character) THEN Fails("rank_delete", character, args, "Forbidden")
        ELSE IF fr.status # "OK" THEN Fails("rank_delete", character, args, fr.status)
        ELSE IF RankRow(fr.rank).number <= 2
             THEN Fails("rank_delete", character, args, "BadRequest")
        ELSE /\ ranks' = ranks \ {RankRow(fr.rank)}
             /\ members' = {m \in members : m.rank # fr.rank}
             /\ last' = Ended("rank_delete", character, args, "OK")
             /\ UNCHANGED <<factions, options, invitations, defaultRanks, pending>>

op_delete(character, factionIn, rankIn) ==
    LET args == [faction |-> factionIn, rank |-> rankIn]
        ff == find_faction(factionIn)
        f == ff.faction
        fr == find_rank(f, rankIn)
    IN  IF ff.status # "OK" THEN Fails("rank_delete", character, args, ff.status)
        ELSE IF ~is_leader(f, character) THEN Fails("rank_delete", character, args, "Forbidden")
        ELSE IF fr.status # "OK" THEN Fails("rank_delete", character, args, fr.status)
        ELSE IF RankRow(fr.rank).number <= 2
             THEN Fails("rank_delete", character, args, "BadRequest")
        ELSE IF \E m \in members : m.rank = fr.rank
             THEN Fails("rank_delete", character, args, "BadRequest")
        ELSE /\ ranks' = ranks \ {RankRow(fr.rank)}
             /\ last' = Ended("rank_delete", character, args, "OK")
             /\ UNCHANGED <<factions, options, members, invitations, defaultRanks, pending>>

(***************************************************************************)
(* DefaultFaction.validate_permissions: each entered token, lower-cased,   *)
(* is matched against all_permissions with partial_match (athanor.utils):  *)
(* a permission the token starts, or None; several matching permissions    *)
(* leave the value of the call open, as for faction names.                 *)
(***************************************************************************)
TokenStarts(tok, perm) ==
    \/ Norm(tok) = perm
    \/ <<Norm(tok), perm>> \in {<<"ros", "roster">>, <<"inv", "invite">>,
                               <<"d", "discipline">>, <<"c", "custom">>}

NoPermission == ""

partial_match_permission(tok, perms) ==
    LET hits == {p \in perms : TokenStarts(tok, p)}
    IN  IF hits = {} THEN {NoPermission}
        ELSE IF Cardinality(hits) = 1 THEN hits
        ELSE hits \cup {NoPermission}

validate_permissions_unchecked(f, entered) ==
    {[ok |-> TRUE, permissions |-> {Norm(tok) : tok \in entered} \ {""}]}

validate_permissions(f, entered) ==
    {IF \E tok \in entered : found[tok] = NoPermission
     THEN [ok |-> FALSE, permissions |-> {}]
     ELSE [ok |-> TRUE, permissions |-> {found[tok] : tok \in entered}] :
        found \in {g \in [entered -> all_permissions(f) \cup {NoPermission}] :
                      \A tok \in entered :
                          g[tok] \in partial_match_permission(tok, all_permissions(f))}}

rank_op_permissions(character, factionIn, rankIn, entered) ==
    LET args == [faction |-> factionIn, rank |-> rankIn, permissions |-> entered]
        ff == find_faction(factionIn)
        f == ff.faction
        fr == find_rank(f, rankIn)
    IN  IF ff.status # "OK" THEN Fails("rank_permissions", character, args, ff.status)
        ELSE IF ~is_leader(f, character)
             THEN Fails("rank_permissions", character, args, "Forbidden")
        ELSE IF fr.status # "OK" THEN Fails("rank_permissions", character, args, fr.status)
        ELSE IF entered = {} THEN Fails("rank_permissions", character, args, "BadRequest")
        ELSE \E v \in validate_permissions(f, entered) :
                IF ~v.ok THEN Fails("rank_permissions", character, args, "BadRequest")
                ELSE /\ ranks' = SetRankPermissions(ranks, fr.rank, v.permissions)
                     /\ last' = Ended("rank_permissions", character, args, "OK")
                     /\ UNCHANGED <<factions, options, members, invitations, defaultRanks, pending>>

(***************************************************************************)
(* The rank registry over a populated database: ann leads faction 1, bob   *)
(* holds its rank 3, adm has the admin capability, cat is a member of      *)
(* nothing.                                                                *)
(***************************************************************************)
InitRank ==
    /\ factions = SeedFactions
    /\ options = << [OPTIONS_FACTION_DEFAULT EXCEPT !.permissions = {"custom"}],
                    OPTIONS_FACTION_DEFAULT >>
    /\ ranks = Ladder(1) \cup Ladder(2)
    /\ members = {MemberRow(1, "ann", LadderId(1, 1), {}),
                  MemberRow(2, "bob", LadderId(1, 3), {})}
    /\ invitations = {}
    /\ defaultRanks = FACTION_DEFAULT_RANKS
    /\ last = Ended("init", "dev", [none |-> TRUE], "OK")
    /\ pending = {}

\* The leader tries every request; the others, who are turned away right
\* after the faction is found, try one request of each kind.
Outsiders == {"bob", "cat"}

RankCreateInputs ==
    ({"ann"} \X {RefInput(1)} \X {NoValue, IntInput(3), IntInput(6), DigitsInput(0)}
             \X {"", "leader", "Scout"})
    \cup ({"adm"} \X {RefInput(2)} \X {IntInput(6)} \X {"Scout"})
    \cup (Outsiders \X {RefInput(1)} \X {IntInput(6)} \X {"Scout"})

RankRenameInputs ==
    ({"ann"} \X {RefInput(1)} \X {IntInput(1), IntInput(4), IntInput(7)}
             \X {"", "second", "Scout"})
    \cup (Outsiders \X {RefInput(1)} \X {IntInput(4)} \X {"Scout"})

RankNumberInputs ==
    ({"ann"} \X {RefInput(1)} \X {IntInput(1), IntInput(2), IntInput(4)}
             \X {IntInput(2), IntInput(6), IntInput(7)})
    \cup {<<"ann", RefInput(1), IntInput(4), DigitsInput(0)>>,
          <<"ann", RefInput(1), IntInput(4), IntInput(0)>>}
    \cup (Outsiders \X {RefInput(1)} \X {IntInput(4)} \X {IntInput(6)})

RankDeleteInputs ==
    ({"ann"} \X {RefInput(1)} \X {IntInput(1), IntInput(3), IntInput(4), IntInput(6)})
    \cup (Outsiders \X {RefInput(1)} \X {IntInput(4)})

RankPermissionsInputs ==
    ({"ann"} \X {RefInput(1)} \X {IntInput(4)} \X {{}, {"ros", "Custom"}, {"bogus"}})
    \cup (Outsiders \X {RefInput(1)} \X {IntInput(4)} \X {{"ros"}})

RankCreate == \E in \in RankCreateInputs : rank_op_create(in[1], in[2], in[3], in[4])

RankList == \E character \in {"ann", "bob", "cat"} : rank_op_list(character, RefInput(1))

RankRename == \E in \in RankRenameInputs : rank_op_rename(in[1], in[2], in[3], in[4])

RankNumber == \E in \in RankNumberInputs : op_number(in[1], in[2], in[3], in[4])

RankDelete == \E in \in RankDeleteInputs : op_delete(in[1], in[2], in[3])

RankPermissions ==
    \E in \in RankPermissionsInputs : rank_op_permissions(in[1], in[2], in[3], in[4])

NextRank ==
    RankCreate \/ RankList \/ RankRename \/ RankNumber \/ RankDelete \/ RankPermissions

SpecRank == InitRank /\ [][NextRank]_vars

(***************************************************************************)
(* find_faction on a path string.  partial_match is athanor.utils, outside *)
(* this repository; find_faction relies on it to return one of the choices *)
(* whose name starts with the text, ignoring case, or None.  What it       *)
(* returns when several choices match is not decided by this repository:   *)
(* every matching choice, and None, are possible values of the call.       *)
(***************************************************************************)
StartsWith(key, text) ==
    /\ Len(text) <= Len(key)
    /\ Lower(SubSeq(key, 1, Len(text))) = Lower(text)

partial_match(text, choices) ==
    LET hits == {c \in choices : StartsWith(factions[c].key, text)}
    IN  IF hits = {} THEN {None}
        ELSE IF Cardinality(hits) = 1 THEN hits
        ELSE hits \cup {None}

NotFound == [status |-> "NotFound", faction |-> None]

RECURSIVE find_faction_rest(_, _)
find_faction_rest(choice, rest) ==
    IF rest = << >> THEN {[status |-> "OK", faction |-> choice]}
    ELSE IF children(choice) = {} THEN {NotFound}
    ELSE UNION {IF new_choice = None THEN {NotFound}
                ELSE find_faction_rest(new_choice, Tail(rest)) :
                    new_choice \in partial_match(Head(rest), children(choice))}

find_faction_path(path) ==
    LET roots == {f \in FactionIds : factions[f].parent = None}
    IN  IF roots = {} THEN {NotFound}
        ELSE UNION {IF choice = None THEN {NotFound}
                    ELSE find_faction_rest(choice, Tail(path)) :
                        choice \in partial_match(Head(path), roots)}

PathInput(path) == [kind |-> "path", path |-> path]

\* Every result a find_faction call on the input can have.
find_faction_results(input) ==
    IF input.kind = "path" THEN find_faction_path(input.path) ELSE {find_faction(input)}

RECURSIVE is_deleted_from(_, _)
is_deleted_from(f, fuel) ==
    IF factions[f].deleted THEN TRUE
    ELSE IF factions[f].parent # None /\ fuel > 0
    THEN is_deleted_from(factions[f].parent, fuel - 1)
    ELSE FALSE

is_deleted(f) == is_deleted_from(f, Len(factions))

op_find_faction(actor, factionIn) ==
    \E found \in find_faction_results(factionIn) :
        /\ last' = Ended("find", actor, [faction |-> factionIn], found)
        /\ UNCHANGED <<factions, options, ranks, members, invitations, defaultRanks, pending>>

(***************************************************************************)
(* Resolution over a populated tree: roots "Ax" (1) and "Ay" (2), and "B"  *)
(* (3) under faction 1.  db_deleted is a column of FactionDB that no       *)
(* handler writes; rows are flagged by tooling outside the managers, so    *)
(* every combination of flags is a database find_faction can be run on.    *)
(***************************************************************************)
FindFactions(flags) ==
    << [key |-> <<"A", "x">>, parent |-> None, deleted |-> 1 \in flags],
       [key |-> <<"A", "y">>, parent |-> None, deleted |-> 2 \in flags],
       [key |-> <<"B">>, parent |-> 1, deleted |-> 3 \in flags] >>

InitFind ==
    /\ \E flags \in SUBSET {1, 2, 3} : factions = FindFactions(flags)
    /\ options = <<OPTIONS_FACTION_DEFAULT, OPTIONS_FACTION_DEFAULT, OPTIONS_FACTION_DEFAULT>>
    /\ ranks = Ladder(1) \cup Ladder(2) \cup Ladder(3)
    /\ members = {}
    /\ invitations = {}
    /\ defaultRanks = FACTION_DEFAULT_RANKS
    /\ last = Ended("init", "dev", [none |-> TRUE], "OK")
    /\ pending = {}

Segments == {<< >>, <<"a">>, <<"a", "X">>, <<"b">>, <<"c">>}

FindInputs ==
    {NoInput} \cup {IdInput(n) : n \in 1..4} \cup {RefInput(f) : f \in 1..3}
    \cup {PathInput(<<a>>) : a \in Segments}
    \cup {PathInput(<<a, b>>) : a \in Segments, b \in Segments}

Find == \E factionIn \in FindInputs : op_find_faction("ann", factionIn)

NextFind == Find

SpecFind == InitFind /\ [][NextFind]_vars

(***************************************************************************)
(* Tree relations used by the properties, computed by bounded iteration    *)
(* over the parent pointers, independently of the code's own walks.        *)
(***************************************************************************)
RECURSIVE UpClosure(_, _)
UpClosure(S, k) ==
    IF k = 0 THEN S
    ELSE UpClosure(S \cup ({factions[x].parent : x \in S} \ {None}), k - 1)

StrictAncestors(f) == UpClosure({factions[f].parent} \ {None}, Len(factions))

Descendants(f) == {g \in FactionIds : f \in StrictAncestors(g)}

Acyclic == \A f \in FactionIds : f \notin StrictAncestors(f)

LadderInstalled(f) == {r.number : r \in {x \in ranks : x.faction = f}} = 1..5

\* The faction ids an operation's arguments named, resolved before the step.
Resolved(input) ==
    IF input.kind \in {"id", "ref"} /\ input.id \in FactionIds THEN input.id ELSE None

(***************************************************************************)
(* C1: after any sequence of create, rename and reparent the parent graph  *)
(* is acyclic, and a reparent by an override holder whose proposed parent  *)
(* is the faction itself or one of its descendants ends in BadRequest and  *)
(* leaves every parent pointer as it was.                                  *)
(***************************************************************************)
C1_RejectStep ==
    LET f == Resolved(last'.args.faction)
        p == Resolved(last'.args.parent)
    IN  (/\ last'.op = "parent"
         /\ check_override(last'.actor)
         /\ f # None
         /\ p # None
         /\ p \in {f} \cup Descendants(f))
        => (last'.result = "BadRequest" /\ factions' = factions)

C1_AcyclicTree == [](Acyclic) /\ [][C1_RejectStep]_vars

C1_Witness ==
    /\ last.op = "parent"
    /\ last.result = "BadRequest"
    /\ Resolved(last.args.faction) # None
    /\ Resolved(last.args.parent) \in Descendants(Resolved(last.args.faction))

(***************************************************************************)
(* C2: in a state reached by create, rename and reparent, no two factions  *)
(* with the same parent (or both at root level) have keys that are equal   *)
(* ignoring case.  Stated over the states in which every faction carries   *)
(* its full ladder, that is, every create so far ended in success.         *)
(***************************************************************************)
SiblingKeysUnique ==
    \A f, g \in FactionIds :
        (f # g /\ factions[f].parent = factions[g].parent)
            => ~IExact(factions[f].key, factions[g].key)

C2_SiblingKeysUnique ==
    (\A f \in FactionIds : LadderInstalled(f)) => SiblingKeysUnique

(***************************************************************************)
(* Spec-level readings used by the resolver properties.                    *)
(***************************************************************************)
AllPermissions(f) == options[f].permissions \cup FACTION_PERMISSIONS_BUILTIN

IsResolve == last.op = "resolve"

(***************************************************************************)
(* C8: for every faction and every actor holding the override or the       *)
(* admin-membership capability, the effective rank is 0 and the effective  *)
(* permissions are all the faction's permissions, with or without a Member *)
(* row of the actor in that faction.                                       *)
(***************************************************************************)
C8_AdminResolvesToAll ==
    \A f \in FactionIds, c \in OverrideHolders \cup AdminHolders :
        /\ get_effective_rank(f, c) = Ranked(0)
        /\ get_effective_permissions(f, c) = Returns(AllPermissions(f))

C8_Witness ==
    /\ IsResolve
    /\ last.actor = "adm"
    /\ MemberRows(last.args.faction, "adm") # {}
    /\ last.result.rank = Ranked(0)
    /\ "custom" \in last.result.permissions.permissions

(***************************************************************************)
(* C9: for every member whose stored rank number is at most 1,             *)
(* has_permission is true for every token, whatever the faction's          *)
(* universal, extra and sub permission sets and the rank's and member's    *)
(* own permission lists hold.                                              *)
(***************************************************************************)
C9_LeaderHasEveryPermission ==
    \A f \in FactionIds, m \in members, permission \in Tokens :
        (RankRow(m.rank).faction = f /\ RankRow(m.rank).number <= 1)
            => has_permission(f, m.character, permission)

C9_Witness ==
    /\ IsResolve
    /\ ~check_admin(last.actor)
    /\ \E m \in MemberRows(last.args.faction, last.actor) : RankRow(m.rank).number <= 1
    /\ last.args.permission = "bogus"
    /\ last.result.has_permission

(***************************************************************************)
(* C10: for a member of rank number above 1 without admin capability the   *)
(* effective permissions are (universal + rank + member permissions)       *)
(* intersected with all the faction's permissions; and whatever set the    *)
(* resolver returns for any actor is a subset of all the faction's         *)
(* permissions.                                                            *)
(***************************************************************************)
C10_MemberPermissionsWithinUniverse ==
    /\ \A f \in FactionIds, c \in Characters :
          (~check_admin(c) /\ MemberRows(f, c) # {}
              /\ RankRow(FirstMember(f, c).rank).number > 1)
          => get_effective_permissions(f, c) =
                Returns((options[f].universal_permissions
                         \cup RankRow(FirstMember(f, c).rank).permissions
                         \cup FirstMember(f, c).permissions) \cap AllPermissions(f))
    /\ \A f \in FactionIds, c \in Characters :
          get_effective_permissions(f, c).permissions \subseteq AllPermissions(f)

C10_Witness ==
    /\ IsResolve
    /\ last.actor = "bob"
    /\ last.args.faction = 1
    /\ MemberRows(1, "bob") # {}
    /\ "custom" \in FirstMember(1, "bob").permissions
    /\ "custom" \notin AllPermissions(1)
    /\ last.result.permissions = Returns({"roster", "invite"})

(***************************************************************************)
(* Readings of a membership step: the faction, the target and the ranks    *)
(* the step was asked about, taken in the state before the step.           *)
(***************************************************************************)
StepFaction == Resolved(last'.args.faction)

StepTarget == last'.args.character.id

StepTargetIsMember ==
    /\ last'.args.character.kind = "obj"
    /\ StepFaction # None
    /\ MemberRows(StepFaction, StepTarget) # {}

StepActorNumber == get_effective_rank(StepFaction, last'.actor).number

StepTargetNumber == RankRow(FirstMember(StepFaction, StepTarget).rank).number

RowsUnchanged ==
    UNCHANGED <<factions, options, ranks, members, invitations, defaultRanks>>

(***************************************************************************)
(* C3: no (character, faction) pair has both a pending Invitation and a    *)
(* Member row, in any state reached by extend, rescind, accept, reject,    *)
(* add and remove.                                                         *)
(***************************************************************************)
C3_InvitedOrMemberNotBoth ==
    \A c \in Characters, f \in FactionIds :
        ~(FactionInvitations(f, c) # {} /\ MemberRows(f, c) # {})

C3_Witness ==
    /\ last.op = "accept"
    /\ last.actor = "cat"
    /\ FactionInvitations(Resolved(last.args.faction), "cat") # {}
    /\ MemberRows(Resolved(last.args.faction), "cat") = {}
    /\ \E c \in Characters : MemberRows(Resolved(last.args.faction), c) # {}

(***************************************************************************)
(* C4: each (character, faction) pair has at most one Member row and at    *)
(* most one pending Invitation, in any state reached by operations applied *)
(* one at a time.                                                          *)
(***************************************************************************)
C4_AtMostOneRowPerPair ==
    \A c \in Characters, f \in FactionIds :
        /\ Cardinality(MemberRows(f, c)) <= 1
        /\ Cardinality(FactionInvitations(f, c)) <= 1

C4_Witness ==
    /\ last.op = "add"
    /\ last.actor = "adm"
    /\ last.args.character = ObjInput("bob")
    /\ Cardinality(MemberRows(Resolved(last.args.faction), "bob")) = 1

(***************************************************************************)
(* C5: a rank (promote / demote) request by an actor with the roster       *)
(* permission, on a member and an existing rank, succeeds and changes only *)
(* the target's rank when the actor's effective rank number is strictly    *)
(* less than both the target's current and the requested rank number, and  *)
(* ends in BadRequest with nothing changed otherwise.                      *)
(***************************************************************************)
C5_Step ==
    LET requested == {r \in ranks : r.faction = StepFaction
                                    /\ r.number = last'.args.rank.value}
        target == FirstMember(StepFaction, StepTarget)
        new == CHOOSE r \in requested : TRUE
    IN  (/\ last'.op = "rank"
         /\ StepTargetIsMember
         /\ has_permission(StepFaction, last'.actor, "roster")
         /\ requested # {})
        => IF StepActorNumber < StepTargetNumber /\ StepActorNumber < new.number
           THEN /\ last'.result = "OK"
                /\ members' = (members \ {target}) \cup {[target EXCEPT !.rank = new.id]}
                /\ UNCHANGED <<factions, options, ranks, invitations>>
           ELSE last'.result = "BadRequest" /\ RowsUnchanged

C5_RankNeedsStrictAuthority == [][C5_Step]_vars

(***************************************************************************)
(* C6: remove needs the roster permission; by an actor whose effective     *)
(* rank number is lower than the target's it deletes the target's Member   *)
(* row, and by an actor of equal or lower authority it ends in BadRequest  *)
(* and the member stays.                                                   *)
(***************************************************************************)
C6_Step ==
    (last'.op = "remove" /\ StepTargetIsMember)
        => IF ~has_permission(StepFaction, last'.actor, "roster")
           THEN last'.result = "Forbidden" /\ RowsUnchanged
           ELSE IF StepActorNumber < StepTargetNumber
           THEN /\ last'.result = "OK"
                /\ members' = members \ MemberRows(StepFaction, StepTarget)
           ELSE last'.result = "BadRequest" /\ RowsUnchanged

C6_RemoveNeedsStrictAuthority == [][C6_Step]_vars

(***************************************************************************)
(* C7: remove, rank and title by an actor holding the override or admin    *)
(* capability succeed against every member of every faction, whether or    *)
(* not the actor is a member of that faction.                              *)
(***************************************************************************)
C7_Step ==
    (/\ last'.op \in {"remove", "rank", "title"}
     /\ check_admin(last'.actor)
     /\ StepTargetIsMember
     /\ last'.op = "rank" =>
            \E r \in ranks : r.faction = StepFaction /\ r.number = last'.args.rank.value)
        => last'.result = "OK"

C7_AdminAlwaysPasses == [][C7_Step]_vars

(***************************************************************************)
(* C11: for an actor without admin capability and without a Member row in  *)
(* faction f, get_effective_permissions returns the faction's sub          *)
(* permissions intersected with all its permissions when the actor is a    *)
(* member of a strict descendant of f, and the empty set otherwise.        *)
(***************************************************************************)
SubMember(f, c) == \E g \in Descendants(f) : MemberRows(g, c) # {}

NonMemberPermissions(f, c) ==
    IF SubMember(f, c)
    THEN join_permissions({options[f].sub_permissions}) \cap AllPermissions(f)
    ELSE {}

C11_NonMemberPermissions ==
    \A f \in FactionIds, c \in Characters :
        (~check_admin(c) /\ MemberRows(f, c) = {})
            => get_effective_permissions(f, c) = Returns(NonMemberPermissions(f, c))

(***************************************************************************)
(* C12: for every actor whose effective rank is neither 0 nor 1 (members   *)
(* of rank above 1, sub-members and non-members alike) has_permission is   *)
(* true exactly when the lower-cased token is among the actor's effective  *)
(* permissions.  Where the resolver returns no set, the effective          *)
(* permissions are those C11 states for an actor without a Member row.     *)
(***************************************************************************)
EffectivePermissions(f, c) ==
    IF get_effective_permissions(f, c).fault
    THEN NonMemberPermissions(f, c)
    ELSE get_effective_permissions(f, c).permissions

C12_HasPermissionIsMembership ==
    \A f \in FactionIds, c \in Characters, permission \in Tokens :
        (get_effective_rank(f, c).none \/ get_effective_rank(f, c).number > 1)
            => (has_permission(f, c, permission)
                    <=> Norm(permission) \in EffectivePermissions(f, c))

C12_MemberHasPermissionIsMembership ==
    \A f \in FactionIds, c \in Characters, permission \in Tokens :
        (~get_effective_rank(f, c).none /\ get_effective_rank(f, c).number > 1)
            => (has_permission(f, c, permission)
                    <=> Norm(permission) \in get_effective_permissions(f, c).permissions)

(***************************************************************************)
(* C13: a create, rename or reparent by an actor without the override      *)
(* capability ends in Forbidden, adds no faction and changes no key and no *)
(* parent; the admin-membership capability alone does not suffice.         *)
(***************************************************************************)
C13_Step ==
    (last'.op \in {"create", "rename", "parent"} /\ last'.actor \notin OverrideHolders)
        => (last'.result = "Forbidden" /\ factions' = factions)

C13_TreeOpsNeedOverride == [][C13_Step]_vars

C13_Witness ==
    /\ last.op = "rename"
    /\ last.actor \in AdminHolders
    /\ Resolved(last.args.faction) # None
    /\ last.result = "Forbidden"

(***************************************************************************)
(* C14: a uniqueness violation ends in the failure kind Conflict: a create *)
(* by the override holder of a name that a faction under the same parent   *)
(* already has, ignoring case, and a rename onto the name of a sibling,    *)
(* end in Conflict and change nothing.                                     *)
(***************************************************************************)
StepParent ==
    IF last'.args.parent.kind = "absent" THEN None ELSE Resolved(last'.args.parent)

C14_Step ==
    /\ (/\ last'.op = "create"
        /\ check_override(last'.actor)
        /\ last'.args.name # << >>
        /\ last'.args.parent.kind = "absent" \/ Resolved(last'.args.parent) # None
        /\ SiblingConflict(last'.args.name, StepParent, {}))
       => (last'.result = "Conflict" /\ factions' = factions)
    /\ (/\ last'.op = "rename"
        /\ check_override(last'.actor)
        /\ last'.args.name # << >>
        /\ Resolved(last'.args.faction) # None
        /\ SiblingConflict(last'.args.name,
                           factions[Resolved(last'.args.faction)].parent,
                           {Resolved(last'.args.faction)}))
       => (last'.result = "Conflict" /\ factions' = factions)

C14_UniquenessIsConflict == [][C14_Step]_vars

(***************************************************************************)
(* C15: a delete of a faction by an override holder sets the faction's     *)
(* soft-delete flag when the confirmation name is the faction's exact      *)
(* current name, and ends in BadRequest with the flag left unset when it   *)
(* is not.                                                                 *)
(***************************************************************************)
C15_Step ==
    LET f == Resolved(last'.args.faction)
    IN  (last'.op = "delete" /\ check_override(last'.actor) /\ f # None)
        => IF last'.args.name = factions[f].key
           THEN /\ last'.result = "OK"
                /\ factions' = [factions EXCEPT ![f].deleted = TRUE]
           ELSE /\ last'.result = "BadRequest"
                /\ factions' = factions

C15_DeleteNeedsExactName == [][C15_Step]_vars

(***************************************************************************)
(* C16: find_faction by id, by reference or by path never returns a        *)
(* deleted faction, a faction being deleted when its own flag or the flag  *)
(* of one of its ancestors is set; a request that names such a faction     *)
(* ends in NotFound.                                                       *)
(***************************************************************************)
CountsAsDeleted(f) == \E g \in {f} \cup StrictAncestors(f) : factions[g].deleted

C16_NeverReturnsDeleted ==
    last.op = "find" =>
        /\ last.result.status = "OK" => ~CountsAsDeleted(last.result.faction)
        /\ (Resolved(last.args.faction) # None
              /\ CountsAsDeleted(Resolved(last.args.faction)))
           => last.result.status = "NotFound"

(***************************************************************************)
(* C18 as stated: every rank registry operation, list included, invoked on *)
(* a faction by an actor whose effective rank there is not 0 or 1 ends in  *)
(* Forbidden.                                                              *)
(***************************************************************************)
RankOps == {"rank_create", "rank_rename", "rank_number", "rank_delete", "rank_permissions"}

StepActorLeads ==
    /\ ~get_effective_rank(StepFaction, last'.actor).none
    /\ get_effective_rank(StepFaction, last'.actor).number <= 1

C18_AllStep ==
    (last'.op \in RankOps \cup {"rank_list"} /\ StepFaction # None /\ ~StepActorLeads)
        => last'.result = "Forbidden"

C18_AllRankOpsNeedLeader == [][C18_AllStep]_vars

(***************************************************************************)
(* C18 amended: rank create, rename, renumber, delete and setPermissions   *)
(* invoked on a faction by an actor whose effective rank there is not 0 or *)
(* 1 end in Forbidden and change no rank; list has no leader requirement   *)
(* and succeeds for every actor.                                           *)
(***************************************************************************)
C18_Step ==
    /\ (last'.op \in RankOps /\ StepFaction # None /\ ~StepActorLeads)
        => (last'.result = "Forbidden" /\ RowsUnchanged)
    /\ (last'.op = "rank_list" /\ StepFaction # None)
        => (last'.result = "OK" /\ RowsUnchanged)

C18_RankWritesNeedLeader == [][C18_Step]_vars

C18_Witness ==
    /\ last.op = "rank_number"
    /\ last.actor = "bob"
    /\ get_effective_rank(Resolved(last.args.faction), "bob") = Ranked(3)
    /\ last.result = "Forbidden"

(***************************************************************************)
(* C19: within each faction no two ranks share a number and no two ranks   *)
(* have names that are equal ignoring case, in every state reached by rank *)
(* create, rename, renumber and delete.                                    *)
(***************************************************************************)
C19_RankNumbersAndNamesUnique ==
    \A r, q \in ranks :
        (r # q /\ r.faction = q.faction)
            => (r.number # q.number /\ NameLower(r.name) # NameLower(q.name))

C19_Witness ==
    /\ last.op = "rank_create"
    /\ last.args.name = "leader"
    /\ last.result = "BadRequest"
    /\ \E r \in FactionRanks(1) : r.name = "Scout"
    /\ \E r \in FactionRanks(1) : r.number = 7

(***************************************************************************)
(* C20: a faction whose default ladder was installed still has a rank      *)
(* numbered 1 and a rank numbered 2 after any sequence of rank create,     *)
(* rename, renumber and delete.                                            *)
(***************************************************************************)
C20_LeadershipRanksRemain ==
    \A f \in FactionIds :
        /\ \E r \in FactionRanks(f) : r.number = 1
        /\ \E r \in FactionRanks(f) : r.number = 2

(***************************************************************************)
(* C21: every stored rank has a positive number, in every state reached by *)
(* rank create and renumber; in particular no stored rank has number 0.    *)
(***************************************************************************)
C21_RankNumbersPositive == \A r \in ranks : r.number > 0

(***************************************************************************)
(* C22: every faction create that passes its checks, the first and every   *)
(* later one of a process, succeeds and leaves the new faction with        *)
(* exactly the five ranks 1..5 of the configured ladder, names and         *)
(* permissions included, and leaves the configured ladder as it was.       *)
(***************************************************************************)
ConfiguredLadder(f) ==
    {[faction |-> f, number |-> n, name |-> FACTION_DEFAULT_RANKS[n].name,
      permissions |-> FACTION_DEFAULT_RANKS[n].permissions] : n \in 1..5}

WithoutId(rs) ==
    {[faction |-> r.faction, number |-> r.number, name |-> r.name,
      permissions |-> r.permissions] : r \in rs}

C22_Step ==
    (/\ last'.op = "create"
     /\ check_override(last'.actor)
     /\ last'.args.name # << >>
     /\ last'.args.parent.kind = "absent" \/ Resolved(last'.args.parent) # None
     /\ ~SiblingConflict(last'.args.name, StepParent, {}))
    => (/\ last'.result = "OK"
        /\ Len(factions') = Len(factions) + 1
        /\ WithoutId({r \in ranks' : r.faction = Len(factions')})
              = ConfiguredLadder(Len(factions'))
        /\ defaultRanks' = FACTION_DEFAULT_RANKS)

C22_EveryCreateInstallsLadder == [][C22_Step]_vars

(***************************************************************************)
(* C23: a rank delete by a leader, of an existing rank, ends in BadRequest *)
(* with the rank in place when the rank's number is at most 2 or a member  *)
(* holds the rank, and otherwise succeeds and removes exactly that rank.   *)
(***************************************************************************)
StepRanks ==
    {r \in FactionRanks(StepFaction) :
        last'.args.rank.kind \in {"int", "digits"} /\ r.number = last'.args.rank.value}

C23_Step ==
    (last'.op = "rank_delete" /\ StepFaction # None /\ StepActorLeads /\ StepRanks # {})
    => LET rank == CHOOSE r \in StepRanks : TRUE
       IN  IF rank.number <= 2 \/ (\E m \in members : m.rank = rank.id)
           THEN last'.result = "BadRequest" /\ RowsUnchanged
           ELSE /\ last'.result = "OK"
                /\ ranks' = ranks \ {rank}
                /\ UNCHANGED <<factions, options, members, invitations>>

StepTargetGiven == last'.args.character.kind = "obj" /\ StepFaction # None

C24_Step ==
    (/\ last'.op = "extend"
     /\ StepTargetGiven
     /\ has_permission(StepFaction, last'.actor, "invite")
     /\ MemberRows(StepFaction, StepTarget) = {}
     /\ FactionInvitations(StepFaction, StepTarget) = {})
    => (/\ last'.result = "OK"
        /\ invitations' = invitations \cup {Invite(StepTarget, StepFaction, last'.actor)}
        /\ UNCHANGED <<factions, options, ranks, members>>)

C24_ExtendCreatesInvitation == [][C24_Step]_vars

(***************************************************************************)
(* C25: an accept by a character with a pending invitation to a faction    *)
(* whose start rank exists creates the Member at that rank and removes the *)
(* Invitation in the same step, after which the character has a Member row *)
(* in the faction and no invitation of the pair remains; an accept without *)
(* an invitation ends in BadRequest.                                       *)
(***************************************************************************)
StartRanks(f) == {r \in FactionRanks(f) : r.number = options[f].start_rank}

C25_Step ==
    (last'.op = "accept" /\ StepFaction # None /\ MemberRows(StepFaction, last'.actor) = {})
    => IF FactionInvitations(StepFaction, last'.actor) = {}
       THEN last'.result = "BadRequest" /\ RowsUnchanged
       ELSE StartRanks(StepFaction) # {}
            => (/\ last'.result = "OK"
                /\ \E m \in members' \ members :
                      /\ members' = members \cup {m}
                      /\ m.character = last'.actor
                      /\ m.rank \in {r.id : r \in StartRanks(StepFaction)}
                /\ invitations' = invitations \ FactionInvitations(StepFaction, last'.actor))

C25_AcceptCreatesMember == [][C25_Step]_vars

(***************************************************************************)
(* C26: when the faction's start rank number matches no rank of the        *)
(* faction, an accept by an invited character ends in BadRequest, creates  *)
(* no Member and leaves the invitation pending.                            *)
(***************************************************************************)
C26_Step ==
    (/\ last'.op = "accept"
     /\ StepFaction # None
     /\ FactionInvitations(StepFaction, last'.actor) # {}
     /\ StartRanks(StepFaction) = {})
    => (last'.result = "BadRequest" /\ RowsUnchanged)

C26_AcceptNeedsStartRank == [][C26_Step]_vars

(***************************************************************************)
(* C27: accept and reject touch only the acting character's own            *)
(* invitation and membership, and a reject by an invited character         *)
(* succeeds and removes the invitation whatever the character's            *)
(* permissions in the faction.                                             *)
(***************************************************************************)
C27_Step ==
    (last'.op \in {"accept", "reject"} /\ StepFaction # None)
    => (/\ \A i \in invitations \ invitations' :
              i.character = last'.actor /\ i.faction = StepFaction
        /\ invitations' \subseteq invitations
        /\ \A m \in members' \ members : m.character = last'.actor
        /\ members \subseteq members'
        /\ (last'.op = "reject" /\ FactionInvitations(StepFaction, last'.actor) # {})
            => (/\ last'.result = "OK"
                /\ invitations' = invitations \ FactionInvitations(StepFaction, last'.actor)))

C27_OnlyOwnInvitation == [][C27_Step]_vars

C27_Witness ==
    /\ last.op = "reject"
    /\ last.actor = "cat"
    /\ last.result = "OK"
    /\ ~has_permission(Resolved(last.args.faction), "cat", "invite")
    /\ FactionInvitations(Resolved(last.args.faction), "cat") = {}
    /\ \E f \in FactionIds : FactionInvitations(f, "cat") # {}

(***************************************************************************)
(* C28: an extend or a rescind by an actor for whom has_permission of      *)
(* "invite" is false in the faction ends in Forbidden and leaves the       *)
(* invitations as they were.                                               *)
(***************************************************************************)
C28_Step ==
    (/\ last'.op \in {"extend", "rescind"}
     /\ StepFaction # None
     /\ ~has_permission(StepFaction, last'.actor, "invite"))
    => (last'.result = "Forbidden" /\ RowsUnchanged)

C28_InvitingNeedsPermission == [][C28_Step]_vars

C28_Witness ==
    /\ last.op = "rescind"
    /\ last.actor = "bob"
    /\ last.args.character = ObjInput("cat")
    /\ get_effective_rank(Resolved(last.args.faction), "bob") = Ranked(4)
    /\ FactionInvitations(Resolved(last.args.faction), "cat") # {}
    /\ last.result = "Forbidden"

(***************************************************************************)
(* C29: a title request by a member for the member's own title succeeds    *)
(* and sets it, with or without the roster permission; for another member  *)
(* it needs the roster permission and ends in BadRequest, changing         *)
(* nothing, when the target's rank is equal or senior to the actor's.      *)
(***************************************************************************)
C29_Step ==
    (last'.op = "title" /\ StepTargetIsMember /\ last'.args.title # "")
    => LET target == FirstMember(StepFaction, StepTarget)
       IN  IF StepTarget = last'.actor
           THEN /\ last'.result = "OK"
                /\ members' = (members \ {target})
                                \cup {[target EXCEPT !.title = last'.args.title]}
           ELSE IF ~has_permission(StepFaction, last'.actor, "roster")
           THEN last'.result = "Forbidden" /\ RowsUnchanged
           ELSE StepActorNumber >= StepTargetNumber
                => (last'.result = "BadRequest" /\ RowsUnchanged)

C29_TitleOwnOrJunior == [][C29_Step]_vars

(***************************************************************************)
(* C30: a step that ends in a typed failure (BadRequest, Forbidden or      *)
(* NotFound) leaves the factions with their keys and parents, the faction  *)
(* configuration, the ranks, the members and the invitations as they were  *)
(* before the step.                                                        *)
(***************************************************************************)
TypedFailures == {"BadRequest", "Forbidden", "NotFound"}

C30_Step ==
    last'.result \in TypedFailures
    => UNCHANGED <<factions, options, ranks, members, invitations>>

C30_TypedFailureChangesNothing == [][C30_Step]_vars

C30_Witness ==
    /\ last.op = "parent"
    /\ last.result = "BadRequest"
    /\ Resolved(last.args.faction) # None
    /\ Resolved(last.args.parent) = Resolved(last.args.faction)
    /\ \E f \in FactionIds : factions[f].parent # None

(***************************************************************************)
(* C31: every operation ends in success or in a typed failure (BadRequest, *)
(* Forbidden, NotFound or Conflict); no add, remove, rank, title, extend   *)
(* or accept ends in an untyped fault.                                     *)
(***************************************************************************)
TypedResults == {"OK", "BadRequest", "Forbidden", "NotFound", "Conflict"}

C31_EveryResultIsTyped == last.result \in TypedResults

(***************************************************************************)
(* C32: a rename or reparent that names a faction id no faction has, sent  *)
(* by an actor without the override permission, ends in NotFound: the      *)
(* target is resolved before the authorization is checked.                 *)
(***************************************************************************)
C32_Step ==
    (/\ last'.op \in {"rename", "parent"}
     /\ last'.args.faction.kind = "id"
     /\ last'.args.faction.id \notin FactionIds
     /\ ~check_override(last'.actor))
    => last'.result = "NotFound"

C32_ResolveBeforeAuthorize == [][C32_Step]_vars

(***************************************************************************)
(* Two reparent requests in flight over one database.  op_parent holds no  *)
(* lock and opens no transaction: it reads the tree for its three tests    *)
(* and then assigns faction.parent.  A request is split where the tests    *)
(* end and the assignment begins; another request may run in between.      *)
(***************************************************************************)
MaxInflight == 2

op_parent_check(actor, factionIn, parentIn) ==
    LET args == [faction |-> factionIn, parent |-> parentIn]
        ff == find_faction(factionIn)
        pf == IF parentIn.kind = "root"
              THEN [status |-> "OK", faction |-> None]
              ELSE find_faction(parentIn)
    IN  IF ~check_override(actor) THEN Fails("parent", actor, args, "Forbidden")
        ELSE IF ff.status # "OK" THEN Fails("parent", actor, args, ff.status)
        ELSE IF pf.status # "OK" THEN Fails("parent", actor, args, pf.status)
        ELSE IF parent_rejected(ff.faction, pf.faction)
             THEN Fails("parent", actor, args, "BadRequest")
        ELSE /\ pending' = pending \cup {[actor |-> actor, args |-> args,
                                          faction |-> ff.faction, parent |-> pf.faction]}
             /\ UNCHANGED <<factions, options, ranks, members, invitations,
                            defaultRanks, last>>

op_parent_write(request) ==
    /\ factions' = [factions EXCEPT ![request.faction].parent = request.parent]
    /\ pending' = pending \ {request}
    /\ last' = Ended("parent", request.actor, request.args, "OK")
    /\ UNCHANGED <<options, ranks, members, invitations, defaultRanks>>

RaceFactions ==
    << [key |-> <<"A">>, parent |-> None, deleted |-> FALSE],
       [key |-> <<"B">>, parent |-> None, deleted |-> FALSE] >>

InitRace ==
    /\ factions = RaceFactions
    /\ options = <<OPTIONS_FACTION_DEFAULT, OPTIONS_FACTION_DEFAULT>>
    /\ ranks = Ladder(1) \cup Ladder(2)
    /\ members = {}
    /\ invitations = {}
    /\ defaultRanks = FACTION_DEFAULT_RANKS
    /\ last = Ended("init", "dev", [none |-> TRUE], "OK")
    /\ pending = {}

RaceInputs ==
    ({"dev"} \X {IdInput(1), IdInput(2)} \X {RootInput, IdInput(1), IdInput(2)})
    \cup {<<"adm", IdInput(1), RootInput>>}

ParentCheck ==
    /\ Cardinality(pending) < MaxInflight
    /\ \E in \in RaceInputs : op_parent_check(in[1], in[2], in[3])

ParentWrite == \E request \in pending : op_parent_write(request)

NextRace == ParentCheck \/ ParentWrite

SpecRace == InitRace /\ [][NextRace]_vars

(***************************************************************************)
(* C33: when reparent requests are interleaved so that each passed its     *)
(* self, ancestor and descendant tests before either assigned its parent,  *)
(* the parent graph is acyclic once all of them have written.              *)
(***************************************************************************)
C33_InterleavedReparentsAcyclic == pending = {} => Acyclic

(***************************************************************************)
(* Lock functions.  A lock is evaluated with the accessing object, the     *)
(* accessed object and the arguments of the lock string, which are text.   *)
(* A character is an object with at_post_puppet; a faction is an object    *)
(* with is_member.  prepare assigns helper.faction only on the branch that *)
(* looks a path up: without a path it answers whether the accessed object  *)
(* is a faction and leaves helper.faction None.  The lookup goes through   *)
(* op_find_faction, whose results hold the faction when it is found.       *)
(***************************************************************************)
CharacterObject(c) == [kind |-> "character", id |-> c]
AccountObject == [kind |-> "account", id |-> "acct"]
FactionObject(f) == [kind |-> "faction", id |-> f]
RoomObject == [kind |-> "room", id |-> 0]

LockReturns(value) == [fault |-> FALSE, value |-> value]
LockRaises == [fault |-> TRUE, value |-> FALSE]

prepare(accessing_obj, accessed_obj, path) ==
    IF accessing_obj.kind # "character"
    THEN {[ok |-> FALSE, faction |-> None]}
    ELSE IF path.kind = "none"
    THEN {[ok |-> accessed_obj.kind = "faction", faction |-> None]}
    ELSE {[ok |-> found.faction # None, faction |-> found.faction] :
            found \in find_faction_path(path.path)}

fmember(accessing_obj, accessed_obj, args) ==
    LET path == IF Len(args) > 0 THEN args[1] ELSE NoInput
    IN  {IF ~helper.ok THEN LockReturns(FALSE)
         ELSE IF helper.faction = None THEN LockRaises
         ELSE LockReturns(is_member(helper.faction, accessing_obj.id)) :
            helper \in prepare(accessing_obj, accessed_obj, path)}

frank(accessing_obj, accessed_obj, args) ==
    IF Len(args) = 0 THEN {LockReturns(FALSE)}
    ELSE LET path == IF Len(args) > 1 THEN args[1] ELSE NoInput
             to_meet == IF Len(args) > 1 THEN args[2] ELSE args[1]
         IN  {IF ~helper.ok THEN LockReturns(FALSE)
              ELSE IF helper.faction = None THEN LockRaises
              ELSE LET rank == get_effective_rank(helper.faction, accessing_obj.id)
                   IN  IF rank.none THEN LockReturns(FALSE)
                       ELSE IF to_meet.kind # "digits" THEN LockReturns(FALSE)
                       ELSE LockReturns(rank.number >= to_meet.value) :
                helper \in prepare(accessing_obj, accessed_obj, path)}

InitLock ==
    /\ factions = SeedFactions
    /\ options = <<OPTIONS_FACTION_DEFAULT, OPTIONS_FACTION_DEFAULT>>
    /\ ranks = Ladder(1) \cup Ladder(2)
    /\ \E annRank \in {1, 3},
          admRow \in {{}, {MemberRow(4, "adm", LadderId(1, 5), {})}} :
            members = {MemberRow(1, "ann", LadderId(1, annRank), {}),
                       MemberRow(2, "bob", LadderId(1, 4), {}),
                       MemberRow(3, "bob", LadderId(2, 2), {})} \cup admRow
    /\ invitations = {}
    /\ defaultRanks = FACTION_DEFAULT_RANKS
    /\ last = Ended("init", "dev", [none |-> TRUE], "OK")
    /\ pending = {}

Accessors == {CharacterObject(c) : c \in Characters} \cup {AccountObject}
Accessed == {FactionObject(1), FactionObject(2), RoomObject}
LockPaths == {PathInput(<< <<"A">> >>), PathInput(<< <<"A">>, <<"B">> >>),
              PathInput(<< <<"Z">> >>)}
Thresholds == {DigitsInput(0), DigitsInput(1), DigitsInput(3), DigitsInput(5), NameStrInput}

FmemberArgs == {<< >>} \cup {<<path>> : path \in LockPaths}

FrankArgs ==
    {<< >>} \cup {<<n>> : n \in Thresholds}
    \cup {<<path, n>> : path \in LockPaths, n \in Thresholds}

Fmember ==
    \E accessing_obj \in Accessors, accessed_obj \in Accessed, args \in FmemberArgs :
        \E result \in fmember(accessing_obj, accessed_obj, args) :
            /\ last' = Ended("fmember", accessing_obj,
                             [accessed |-> accessed_obj, args |-> args], result)
            /\ UNCHANGED <<factions, options, ranks, members, invitations,
                           defaultRanks, pending>>

Frank ==
    \E accessing_obj \in Accessors, accessed_obj \in Accessed, args \in FrankArgs :
        \E result \in frank(accessing_obj, accessed_obj, args) :
            /\ last' = Ended("frank", accessing_obj,
                             [accessed |-> accessed_obj, args |-> args], result)
            /\ UNCHANGED <<factions, options, ranks, members, invitations,
                           defaultRanks, pending>>

NextLock == Fmember \/ Frank

SpecLock == InitLock /\ [][NextLock]_vars

(***************************************************************************)
(* C35: frank with a faction path that resolves and a numeric threshold n  *)
(* passes exactly for the characters whose effective rank number in that   *)
(* faction is at most n (admins, at rank 0, pass every threshold), and     *)
(* fails for a character with no effective rank.                           *)
(***************************************************************************)
LockPathFaction(path) == (CHOOSE found \in find_faction_path(path.path) : TRUE).faction

C35_FrankMeetsOrOutranks ==
    (/\ last.op = "frank"
     /\ last.actor.kind = "character"
     /\ Len(last.args.args) = 2
     /\ LockPathFaction(last.args.args[1]) # None
     /\ last.args.args[2].kind = "digits")
    => LET rank == get_effective_rank(LockPathFaction(last.args.args[1]), last.actor.id)
       IN  last.result =
             LockReturns(~rank.none /\ rank.number <= last.args.args[2].value)

(***************************************************************************)
(* C36: fmember without a faction argument, on a faction object, returns   *)
(* that faction's is_member for the accessing character; when the          *)
(* accessor is not a character, the path does not resolve or the accessed  *)
(* object is not a faction, it returns false; it never raises.             *)
(***************************************************************************)
C36_FmemberNeverRaises ==
    last.op = "fmember"
    => /\ ~last.result.fault
       /\ (/\ last.args.args = << >>
           /\ last.actor.kind = "character"
           /\ last.args.accessed.kind = "faction")
          => last.result = LockReturns(is_member(last.args.accessed.id, last.actor.id))

(***************************************************************************)
(* The three tests of op_parent, in the order of the code, evaluated on    *)
(* forests larger than the tree operations build within MaxFactions.       *)
(* Every forest is a database create and reparent can produce.             *)
(***************************************************************************)
WalkFactions == 4

WalkKeys == <<"A", "B", "C", "D", "E", "F">>

parent_tests(faction, parent) ==
    LET self == parent = faction
        ancestor == parent # None /\ faction \in ancestors(parent)
        descendant == contains_sub_faction(faction, parent)
    IN  [self |-> self, ancestor |-> ancestor, descendant |-> descendant,
         rejected_by |-> IF self THEN "self"
                         ELSE IF ancestor THEN "ancestor"
                         ELSE IF descendant THEN "descendant"
                         ELSE "none"]

InitWalk ==
    /\ \E parents \in [1..WalkFactions -> {None} \cup (1..WalkFactions)] :
          factions = [f \in 1..WalkFactions |->
                        [key |-> <<WalkKeys[f]>>, parent |-> parents[f], deleted |-> FALSE]]
    /\ \A f \in FactionIds : f \notin ancestors(f) /\ factions[f].parent # f
    /\ options = [f \in 1..WalkFactions |-> OPTIONS_FACTION_DEFAULT]
    /\ ranks = {}
    /\ members = {}
    /\ invitations = {}
    /\ defaultRanks = FACTION_DEFAULT_RANKS
    /\ last = Ended("init", "dev", [none |-> TRUE], "OK")
    /\ pending = {}

Walk ==
    \E faction \in FactionIds, parent \in FactionIds \cup {None} :
        /\ last' = Ended("parent_tests", "dev", [faction |-> faction, parent |-> parent],
                         parent_tests(faction, parent))
        /\ UNCHANGED <<factions, options, ranks, members, invitations,
                       defaultRanks, pending>>

NextWalk == Walk

SpecWalk == InitWalk /\ [][NextWalk]_vars

(***************************************************************************)
(* C37: on an acyclic tree the ancestor test and the descendant test of    *)
(* reparent decide the same condition (the faction is among the proposed   *)
(* parent's ancestors exactly when the proposed parent is in the           *)
(* faction's subtree), so the descendant test is never the one that        *)
(* rejects a request.                                                      *)
(***************************************************************************)
C37_WalksAgree ==
    last.op = "parent_tests"
    => /\ last.result.ancestor = last.result.descendant
       /\ last.result.rejected_by # "descendant"

C37_Witness ==
    /\ last.op = "parent_tests"
    /\ last.result.rejected_by = "ancestor"
    /\ last.result.descendant
    /\ factions[last.args.parent].parent # last.args.faction

(***************************************************************************)
(* FactionDBManager.op_config_set and op_config_list.  options.set looks   *)
(* the key up among the option names and hands the value to the option     *)
(* class: FactionPermissions.validate calls validate_permissions, which    *)
(* lower-cases and splits the text and raises ValueError on a value that   *)
(* is not text; PositiveInteger accepts whole numbers from 1.  A           *)
(* ValueError becomes HTTP 400; otherwise the validated value is stored.   *)
(***************************************************************************)
PermissionOptions == {"universal_permissions", "permissions", "sub_permissions"}

OptionKeys == PermissionOptions \cup {"start_rank"}

TextValue(entered) == [kind |-> "text", tokens |-> entered]

\* Every outcome of the option class's validate on the value.
option_validate(f, key, value) ==
    IF key \in PermissionOptions
    THEN IF value.kind # "text" THEN {[ok |-> FALSE, value |-> {}]}
         ELSE {[ok |-> v.ok, value |-> v.permissions] :
                 v \in validate_permissions(f, value.tokens)}
    ELSE IF value.kind = "digits" /\ value.value >= 1
         THEN {[ok |-> TRUE, value |-> value.value]}
         ELSE {[ok |-> FALSE, value |-> 0]}

op_config_set(character, factionIn, key, value) ==
    LET args == [faction |-> factionIn, key |-> key, value |-> value]
        ff == find_faction(factionIn)
        f == ff.faction
    IN  IF ff.status # "OK" THEN Fails("config_set", character, args, ff.status)
        ELSE IF ~is_leader(f, character)
             THEN Fails("config_set", character, args, "Forbidden")
        ELSE IF key \notin OptionKeys THEN Fails("config_set", character, args, "BadRequest")
        ELSE \E v \in option_validate(f, key, value) :
                IF ~v.ok THEN Fails("config_set", character, args, "BadRequest")
                ELSE /\ options' = [options EXCEPT ![f] =
                                      [k \in OptionKeys |->
                                          IF k = key THEN v.value ELSE options[f][k]]]
                     /\ last' = Ended("config_set", character, args, "OK")
                     /\ UNCHANGED <<factions, ranks, members, invitations,
                                    defaultRanks, pending>>

op_config_list(character, factionIn) ==
    LET args == [faction |-> factionIn]
        ff == find_faction(factionIn)
    IN  IF ff.status # "OK" THEN Fails("config_list", character, args, ff.status)
        ELSE IF ~is_leader(ff.faction, character)
             THEN Fails("config_list", character, args, "Forbidden")
        ELSE /\ last' = Ended("config_list", character, args, "OK")
             /\ UNCHANGED <<factions, options, ranks, members, invitations,
                            defaultRanks, pending>>

(***************************************************************************)
(* Configuration from the default options: ann leads faction 1, bob holds  *)
(* its rank 3, adm has the admin capability.  An option value holding any  *)
(* other token, as in the resolver and rank databases above, is one that   *)
(* was stored through the faction's attributes and not by op_config_set.   *)
(***************************************************************************)
InitConfig ==
    /\ factions = SeedFactions
    /\ options = <<OPTIONS_FACTION_DEFAULT, OPTIONS_FACTION_DEFAULT>>
    /\ ranks = Ladder(1) \cup Ladder(2)
    /\ members = {MemberRow(1, "ann", LadderId(1, 1), {}),
                  MemberRow(2, "bob", LadderId(1, 3), {})}
    /\ invitations = {}
    /\ defaultRanks = FACTION_DEFAULT_RANKS
    /\ last = Ended("init", "dev", [none |-> TRUE], "OK")
    /\ pending = {}

ConfigValues ==
    {TextValue(entered) : entered \in {{}, {"ros"}, {"Roster", "inv"}, {"custom"},
                                       {"roster", "bogus"}}}
    \cup {NoValue}

ConfigSetInputs ==
    ({"ann"} \X {RefInput(1)} \X (PermissionOptions \cup {"bogus"}) \X ConfigValues)
    \cup ({"ann"} \X {RefInput(1)} \X {"start_rank"}
                  \X {DigitsInput(3), DigitsInput(0), NameStrInput})
    \cup {<<"adm", RefInput(2), "permissions", TextValue({"custom"})>>,
          <<"adm", RefInput(2), "permissions", TextValue({"inv"})>>,
          <<"bob", RefInput(1), "permissions", TextValue({"ros"})>>}

ConfigSet == \E in \in ConfigSetInputs : op_config_set(in[1], in[2], in[3], in[4])

ConfigList == \E character \in {"ann", "bob"} : op_config_list(character, RefInput(1))

NextConfig == ConfigSet \/ ConfigList

SpecConfig == InitConfig /\ [][NextConfig]_vars

C39_RanksExist == \A m \in members : \E r \in ranks : r.id = m.rank

C39_Step ==
    \A m \in members, n \in members' :
        m.id = n.id
        => \A r \in ranks, q \in ranks' :
              (r.id = m.rank /\ q.id = n.rank) => q.faction = r.faction

====
